---- MODULE Spec2Model ----
(***************************************************************************)
(* dataspine: the MarketData / TradeData schemas (construction-time field  *)
(* validators run by the pydantic model) and the ContractValidator that    *)
(* re-checks an existing record.  One behaviour follows one record from    *)
(* its creation, through field assignments and validate calls, while the   *)
(* wall clock advances.  A second specification, SpecBatch, applies the    *)
(* batch invariant checks of validation/invariants.py to batches of        *)
(* records.                                                                *)
(*                                                                         *)
(* Strings are tuples of one-character strings; time is counted in minutes *)
(* since 2000-01-01T00:00 (so the calendar year 2000 starts at 0).         *)
(***************************************************************************)
EXTENDS Integers, Sequences, FiniteSets, TLC

VARIABLES now, rec, origin, assigns, stamped, out, batch1, batch2, inv, frames

vars == <<now, rec, origin, assigns, stamped, out, batch1, batch2, inv, frames>>
\* the state of the record under validation, and that of the batch checks
\* (with the frames of the calls that are under way in two threads)
recordvars == <<now, rec, origin, assigns, stamped, out>>
batchvars == <<batch1, batch2, inv, frames>>

(***************************************************************************)
(* Bounds of the model.                                                    *)
(***************************************************************************)
\* the clock advances at most this many minutes in a behaviour
MaxTicks == 1
\* raw inputs differ from the documented example record in at most this many fields
MaxDeviations == 3
\* symbols are a run of "A" followed by at most this many free characters
MaxSuffix == 2
\* a record takes at most this many accepted field assignments
MaxAssigns == 1
\* decimal coefficients range over -1 .. MaxCoef
MaxCoef == 2
\* decimal exponents range over -(MAX_DECIMAL_PLACES + MaxExtraPlaces) .. 1
MaxExtraPlaces == 2

(***************************************************************************)
(* Module-level constants of the schemas and of the contract validator.   *)
(***************************************************************************)
MAX_DECIMAL_PLACES == 4
MAX_FUTURE_MINUTES == 5
MIN_VALID_YEAR == 2000
B_U_Y == <<"B", "U", "Y">>
S_E_L_L == <<"S", "E", "L", "L">>
VALID_SIDES == {B_U_Y, S_E_L_L}

\* the clock of the first state, in minutes since 2000-01-01T00:00Z
NowStart == 1000

(***************************************************************************)
(* Python values.                                                          *)
(***************************************************************************)
None == [t |-> "NoneType"]
Str(s) == [t |-> "str", v |-> s]
Int_(n) == [t |-> "int", v |-> n]
\* a finite Decimal: as_tuple() gives the sign and digits of coef, and exp
Dec(c, e) == [t |-> "Decimal", special |-> "", coef |-> c, exp |-> e]
\* Decimal("NaN") and Decimal("Infinity"): as_tuple().exponent is "n" / "F"
DecSpecial(s) == [t |-> "Decimal", special |-> s, coef |-> 0, exp |-> 0]
\* a datetime: tzinfo present or not, its utcoffset in minutes, and its own
\* wall-clock reading in minutes since 2000-01-01T00:00 of its own zone
Dt(aware, offset, local) ==
    [t |-> "datetime", aware |-> aware, offset |-> offset, local |-> local]

IsNone(v) == v.t = "NoneType"

(***************************************************************************)
(* str methods and the regular expression.                                 *)
(***************************************************************************)
UpperLetters == {"A", "B", "E", "L", "P", "S", "U", "X", "Y"}
Digits == {"1"}
Whitespace == {" ", "\n"}

\* str.upper() on one character
UpperChar(c) ==
    CASE c = "a" -> "A" [] c = "b" -> "B" [] c = "e" -> "E" [] c = "l" -> "L"
      [] c = "u" -> "U" [] c = "x" -> "X" [] c = "y" -> "Y" [] OTHER -> c
\* str.upper()
Upper(s) == [i \in 1..Len(s) |-> UpperChar(s[i])]

RECURSIVE LStrip(_)
LStrip(s) ==
    IF Len(s) > 0 /\ s[1] \in Whitespace THEN LStrip(Tail(s)) ELSE s
RECURSIVE RStrip(_)
RStrip(s) ==
    IF Len(s) > 0 /\ s[Len(s)] \in Whitespace
    THEN RStrip(SubSeq(s, 1, Len(s) - 1))
    ELSE s
\* str.strip()
Strip(s) == RStrip(LStrip(s))

\* the character class [A-Z0-9.]
InClass(c) == c \in UpperLetters \cup Digits \cup {"."}
\* [A-Z0-9.]{1,10} over the whole of s
ClassRun(s) == Len(s) >= 1 /\ Len(s) <= 10 /\ \A i \in 1..Len(s) : InClass(s[i])
\* SYMBOL_PATTERN.match(s) for ^[A-Z0-9.]{1,10}$ : without re.MULTILINE the
\* anchor $ matches at the end of the string and also just before a newline
\* that is the last character of the string
SYMBOL_PATTERN_match(s) ==
    \/ ClassRun(s)
    \/ /\ Len(s) >= 1
       /\ s[Len(s)] = "\n"
       /\ ClassRun(SubSeq(s, 1, Len(s) - 1))

(***************************************************************************)
(* Outcome of one field validator: it returns the value, raises ValueError *)
(* (which pydantic turns into one entry of the ValidationError), or raises *)
(* something else (which pydantic lets through to the caller).             *)
(***************************************************************************)
Ok(v) == [k |-> "ok", tag |-> "", rule |-> "", v |-> v]
ValueError(tag, rule) == [k |-> "ValueError", tag |-> tag, rule |-> rule, v |-> None]
Raise(exc) == [k |-> "exception", tag |-> exc, rule |-> "", v |-> None]

(***************************************************************************)
(* Decimal(str(v)) for the non-Decimal raw values the model feeds in.      *)
(* Text is over the characters "1", ".", "-", " " and letters.             *)
(***************************************************************************)
RECURSIVE DigitsVal(_)
DigitsVal(s) ==
    IF Len(s) = 0 THEN 0 ELSE 10 * DigitsVal(SubSeq(s, 1, Len(s) - 1)) + 1

DropChar(s, c) == SelectSeq(s, LAMBDA x : x # c)
\* number of characters of s after its first period (0 when it has none)
FracDigits(s) ==
    IF \E i \in 1..Len(s) : s[i] = "."
    THEN Len(s) - (CHOOSE i \in 1..Len(s) : s[i] = "." /\ \A j \in 1..(i - 1) : s[j] # ".")
    ELSE 0
\* the unsigned numeral s: digits with at most one period and at least one digit
IsNumeral(s) ==
    /\ \A i \in 1..Len(s) : s[i] \in Digits \cup {"."}
    /\ Len(DropChar(s, ".")) >= 1
    /\ Len(s) - Len(DropChar(s, ".")) <= 1
\* Decimal(text): surrounding whitespace is dropped, one leading "-" is the sign
DecimalOfText(text) ==
    LET s == Strip(text)
        neg == Len(s) > 0 /\ s[1] = "-"
        body == IF neg THEN Tail(s) ELSE s
    IN  IF IsNumeral(body)
        THEN Ok(Dec((IF neg THEN -1 ELSE 1) * DigitsVal(DropChar(body, ".")),
                    -FracDigits(body)))
        ELSE Raise("InvalidOperation")
\* Decimal(str(v))
DecimalOfStr(v) ==
    CASE v.t = "int" -> Ok(Dec(v.v, 0))
      [] v.t = "str" -> DecimalOfText(v.v)
      [] OTHER -> Raise("InvalidOperation")

(***************************************************************************)
(* The positive-decimal rule shared by validate_price and                  *)
(* validate_quantity, which differ in the tag of their messages only.      *)
(***************************************************************************)
\* v <= 0 on a Decimal: "True", "False", or "InvalidOperation" for a NaN
DecimalLeZero(v) ==
    CASE v.special = "NaN" -> "InvalidOperation"
      [] v.special = "Infinity" -> "False"
      [] OTHER -> IF v.coef <= 0 THEN "True" ELSE "False"

\* mutant: the sign test is v < 0, so that zero is taken for positive
PositiveDecimal_zero_accepted(raw, tag) ==
    LET conv == IF raw.t = "Decimal" THEN Ok(raw) ELSE DecimalOfStr(raw)
        v == conv.v
    IN  IF conv.k # "ok" THEN ValueError(tag, "not_decimal")
        ELSE IF DecimalLeZero(v) = "InvalidOperation" THEN Raise("InvalidOperation")
        ELSE IF DecimalLeZero(v) = "True" /\ v.coef # 0 THEN ValueError(tag, "positive")
        ELSE IF v.special = "Infinity" THEN Raise("TypeError")
        ELSE IF v.exp < 0 /\ -v.exp > MAX_DECIMAL_PLACES THEN ValueError(tag, "decimals")
        ELSE Ok(v)

PositiveDecimal(raw, tag) ==
    LET conv == IF raw.t = "Decimal" THEN Ok(raw) ELSE DecimalOfStr(raw)
        v == conv.v
    IN  IF conv.k # "ok" THEN ValueError(tag, "not_decimal")
        ELSE IF DecimalLeZero(v) = "InvalidOperation" THEN Raise("InvalidOperation")
        ELSE IF DecimalLeZero(v) = "True" THEN ValueError(tag, "positive")
        \* as_tuple().exponent of an infinity is the string "F": "F" < 0 is a TypeError
        ELSE IF v.special = "Infinity" THEN Raise("TypeError")
        ELSE IF v.exp < 0 /\ -v.exp > MAX_DECIMAL_PLACES THEN ValueError(tag, "decimals")
        ELSE Ok(v)

(***************************************************************************)
(* datetime helpers.                                                       *)
(***************************************************************************)
\* the instant of an aware datetime, in minutes since 2000-01-01T00:00Z
Instant(ts) == ts.local - ts.offset
\* ts.year, exact for the years 1999 and 2000
Year(ts) == MIN_VALID_YEAR + (ts.local \div (366 * 24 * 60))

(***************************************************************************)
(* MarketData field validators.  clock is what datetime.now(timezone.utc)  *)
(* returns during the call.                                                *)
(***************************************************************************)
MarketData_validate_symbol(v) ==
    IF Len(v) = 0 THEN ValueError("SYMBOL_FORMAT", "empty")
    ELSE IF v # Upper(v) THEN ValueError("SYMBOL_FORMAT", "uppercase")
    ELSE IF Len(v) < 1 \/ Len(v) > 10 THEN ValueError("SYMBOL_FORMAT", "length")
    ELSE IF ~SYMBOL_PATTERN_match(v) THEN ValueError("SYMBOL_FORMAT", "pattern")
    ELSE Ok(Str(v))

MarketData_validate_price(raw) == PositiveDecimal(raw, "PRICE_VALIDITY")

\* mutant: the test of the UTC offset is missing
MarketData_validate_timestamp_any_offset(v, clock) ==
    IF ~v.aware THEN ValueError("TIMESTAMP_VALIDITY", "naive")
    ELSE IF Instant(v) > clock + MAX_FUTURE_MINUTES
         THEN ValueError("TIMESTAMP_VALIDITY", "future")
    ELSE IF Year(v) < MIN_VALID_YEAR THEN ValueError("TIMESTAMP_VALIDITY", "too_old")
    ELSE Ok(v)

MarketData_validate_timestamp(v, clock) ==
    IF ~v.aware THEN ValueError("TIMESTAMP_VALIDITY", "naive")
    ELSE IF v.offset # 0 THEN ValueError("TIMESTAMP_VALIDITY", "not_utc")
    ELSE IF Instant(v) > clock + MAX_FUTURE_MINUTES
         THEN ValueError("TIMESTAMP_VALIDITY", "future")
    ELSE IF Year(v) < MIN_VALID_YEAR THEN ValueError("TIMESTAMP_VALIDITY", "too_old")
    ELSE Ok(v)

MarketData_validate_volume(v) ==
    IF v < 0 THEN ValueError("VOLUME_VALIDITY", "negative") ELSE Ok(Int_(v))

MarketData_validate_source(v) ==
    IF Len(v) = 0 \/ Len(Strip(v)) = 0
    THEN ValueError("REQUIRED_FIELDS", "empty")
    ELSE Ok(Str(v))

(***************************************************************************)
(* TradeData field validators.                                             *)
(***************************************************************************)
TradeData_validate_trade_id(v) ==
    IF Len(v) = 0 \/ Len(Strip(v)) = 0
    THEN ValueError("REQUIRED_FIELDS", "empty")
    ELSE Ok(Str(v))

\* mutant: only the empty string is refused ("not v" without "not v.strip()")
TradeData_validate_client_id_unstripped(v) ==
    IF Len(v) = 0
    THEN ValueError("REQUIRED_FIELDS", "empty")
    ELSE Ok(Str(v))

TradeData_validate_client_id(v) ==
    IF Len(v) = 0 \/ Len(Strip(v)) = 0
    THEN ValueError("REQUIRED_FIELDS", "empty")
    ELSE Ok(Str(v))

TradeData_validate_symbol(v) ==
    IF Len(v) = 0 THEN ValueError("SYMBOL_FORMAT", "empty")
    ELSE IF v # Upper(v) THEN ValueError("SYMBOL_FORMAT", "uppercase")
    ELSE IF Len(v) < 1 \/ Len(v) > 10 THEN ValueError("SYMBOL_FORMAT", "length")
    ELSE IF ~SYMBOL_PATTERN_match(v) THEN ValueError("SYMBOL_FORMAT", "pattern")
    ELSE Ok(Str(v))

\* v not in VALID_SIDES, for any Python value v
TradeData_validate_side(raw) ==
    IF ~(raw.t = "str" /\ raw.v \in VALID_SIDES)
    THEN ValueError("TRADE_SPECIFIC", "side")
    ELSE Ok(raw)

TradeData_validate_quantity(raw) == PositiveDecimal(raw, "QUANTITY_VALIDITY")

TradeData_validate_price(raw) == PositiveDecimal(raw, "PRICE_VALIDITY")

TradeData_validate_timestamp(v, clock) ==
    IF ~v.aware THEN ValueError("TIMESTAMP_VALIDITY", "naive")
    ELSE IF v.offset # 0 THEN ValueError("TIMESTAMP_VALIDITY", "not_utc")
    ELSE IF Instant(v) > clock + MAX_FUTURE_MINUTES
         THEN ValueError("TIMESTAMP_VALIDITY", "future")
    ELSE IF Year(v) < MIN_VALID_YEAR THEN ValueError("TIMESTAMP_VALIDITY", "too_old")
    ELSE Ok(v)

TradeData_validate_venue(v) ==
    IF Len(v) = 0 \/ Len(Strip(v)) = 0
    THEN ValueError("REQUIRED_FIELDS", "empty")
    ELSE Ok(Str(v))

(***************************************************************************)
(* The pydantic model (strict=True): every field is validated, in          *)
(* declaration order.  A field_validator in the default "after" mode runs  *)
(* once the strict type check of the field has passed; a mode="before"     *)
(* validator receives the raw value.  Each failing field contributes one   *)
(* entry to the ValidationError; an exception that is neither ValueError   *)
(* nor AssertionError leaves the constructor as it is.                     *)
(***************************************************************************)
MarketFields == <<"symbol", "price", "timestamp", "volume", "source">>
TradeFields ==
    <<"trade_id", "client_id", "symbol", "side", "quantity", "price",
      "timestamp", "venue">>
FieldsOf(type) == IF type = "MarketData" THEN MarketFields ELSE TradeFields
FieldSet(type) == {FieldsOf(type)[i] : i \in 1..Len(FieldsOf(type))}

\* the declared Python type of the fields validated in "after" mode
DeclaredType(field) ==
    CASE field = "timestamp" -> "datetime"
      [] field = "volume" -> "int"
      [] OTHER -> "str"

StrictTypeError(field) == ValueError("pydantic", DeclaredType(field))

MarketData_field(field, raw, clock) ==
    CASE field = "price" -> MarketData_validate_price(raw)
      [] raw.t # DeclaredType(field) -> StrictTypeError(field)
      [] field = "symbol" -> MarketData_validate_symbol(raw.v)
      [] field = "timestamp" -> MarketData_validate_timestamp(raw, clock)
      [] field = "volume" -> MarketData_validate_volume(raw.v)
      [] field = "source" -> MarketData_validate_source(raw.v)

TradeData_field(field, raw, clock) ==
    CASE field = "price" -> TradeData_validate_price(raw)
      [] field = "quantity" -> TradeData_validate_quantity(raw)
      [] field = "side" -> TradeData_validate_side(raw)
      [] raw.t # DeclaredType(field) -> StrictTypeError(field)
      [] field = "trade_id" -> TradeData_validate_trade_id(raw.v)
      [] field = "client_id" -> TradeData_validate_client_id(raw.v)
      [] field = "symbol" -> TradeData_validate_symbol(raw.v)
      [] field = "timestamp" -> TradeData_validate_timestamp(raw, clock)
      [] field = "venue" -> TradeData_validate_venue(raw.v)

\* the outcome of validating one field of a model of the given type
FieldOutcome(type, field, raw, clock) ==
    IF type = "MarketData"
    THEN MarketData_field(field, raw, clock)
    ELSE TradeData_field(field, raw, clock)

\* one entry of ValidationError.errors()
Entry(field, r) == [loc |-> field, tag |-> r.tag, rule |-> r.rule]

RECURSIVE CollectEntries(_, _, _, _)
\* the entries of the fields fs[i..], in order
CollectEntries(fs, res, i, acc) ==
    IF i > Len(fs) THEN acc
    ELSE CollectEntries(fs, res, i + 1,
            IF res[fs[i]].k = "ValueError"
            THEN Append(acc, Entry(fs[i], res[fs[i]]))
            ELSE acc)

\* the whole-model validation of the public constructor: the new field
\* values, or the ValidationError, or the exception that escaped
ModelValidate(type, raw, clock) ==
    LET fs == FieldsOf(type)
        res == [f \in FieldSet(type) |-> FieldOutcome(type, f, raw[f], clock)]
        escaping == {i \in 1..Len(fs) : res[fs[i]].k = "exception"}
        entries == CollectEntries(fs, res, 1, <<>>)
    IN  IF escaping # {}
        THEN [status |-> "exception",
              exc |-> res[fs[CHOOSE i \in escaping : \A j \in escaping : i <= j]].tag,
              errors |-> <<>>, values |-> raw]
        ELSE IF Len(entries) > 0
        THEN [status |-> "ValidationError", exc |-> "", errors |-> entries,
              values |-> raw]
        ELSE [status |-> "ok", exc |-> "", errors |-> <<>>,
              values |-> [f \in FieldSet(type) |-> res[f].v]]

(***************************************************************************)
(* ContractValidator.  A check returns its list of messages, or an         *)
(* exception leaves it, and then leaves the validate call.                 *)
(***************************************************************************)
Msg(tag, field, rule) == [tag |-> tag, field |-> field, rule |-> rule]
Returns(errs) == [k |-> "ok", errs |-> errs, exc |-> ""]
Throws(exc) == [k |-> "exception", errs |-> <<>>, exc |-> exc]

\* the messages of a condition that appends one message when it holds
When(cond, msg) == IF cond THEN <<msg>> ELSE <<>>

RECURSIVE MissingFrom(_, _, _)
\* the loop over required_fields, from index i on
MissingFrom(fs, data, i) ==
    IF i > Len(fs) THEN <<>>
    ELSE When(IsNone(data[fs[i]]), Msg("REQUIRED_FIELDS", fs[i], "missing"))
         \o MissingFrom(fs, data, i + 1)

_check_required_fields_market(data) == Returns(MissingFrom(MarketFields, data, 1))

_check_required_fields_trade(data) == Returns(MissingFrom(TradeFields, data, 1))

\* mutant: the decimal places are tested only when the sign test passed
_check_price_validity_places_skipped(value, field_name) ==
    IF value.t # "Decimal"
    THEN Returns(<<Msg("PRICE_VALIDITY", field_name, "type")>>)
    ELSE IF DecimalLeZero(value) = "InvalidOperation"
    THEN Throws("InvalidOperation")
    ELSE IF DecimalLeZero(value) = "True"
    THEN Returns(<<Msg("PRICE_VALIDITY", field_name, "positive")>>)
    ELSE Returns(
        When(value.special = "" /\ value.exp < 0
                    /\ -value.exp > MAX_DECIMAL_PLACES,
             Msg("PRICE_VALIDITY", field_name, "decimals")))

_check_price_validity(value, field_name) ==
    IF value.t # "Decimal"
    THEN Returns(<<Msg("PRICE_VALIDITY", field_name, "type")>>)
    ELSE IF DecimalLeZero(value) = "InvalidOperation"
    THEN Throws("InvalidOperation")
    ELSE Returns(
        When(DecimalLeZero(value) = "True",
             Msg("PRICE_VALIDITY", field_name, "positive"))
        \o When(value.special = "" /\ value.exp < 0
                    /\ -value.exp > MAX_DECIMAL_PLACES,
                Msg("PRICE_VALIDITY", field_name, "decimals")))

\* mutant: the future test is ts >= max_future, refusing the bound itself
_check_timestamp_validity_bound_refused(ts, clock) ==
    IF ts.t # "datetime" THEN Throws("AttributeError")
    ELSE IF ~ts.aware
    THEN Returns(<<Msg("TIMESTAMP_VALIDITY", "timestamp", "naive")>>)
    ELSE Returns(
        When(ts.offset # 0, Msg("TIMESTAMP_VALIDITY", "timestamp", "not_utc"))
        \o When(Instant(ts) >= clock + MAX_FUTURE_MINUTES,
                Msg("TIMESTAMP_VALIDITY", "timestamp", "future"))
        \o When(Year(ts) < MIN_VALID_YEAR,
                Msg("TIMESTAMP_VALIDITY", "timestamp", "too_old")))

\* mutant: the test refuses what lies more than five minutes before the
\* clock instead of what lies more than five minutes after it
_check_timestamp_validity_past_refused(ts, clock) ==
    IF ts.t # "datetime" THEN Throws("AttributeError")
    ELSE IF ~ts.aware
    THEN Returns(<<Msg("TIMESTAMP_VALIDITY", "timestamp", "naive")>>)
    ELSE Returns(
        When(ts.offset # 0, Msg("TIMESTAMP_VALIDITY", "timestamp", "not_utc"))
        \o When(Instant(ts) < clock - MAX_FUTURE_MINUTES,
                Msg("TIMESTAMP_VALIDITY", "timestamp", "future"))
        \o When(Year(ts) < MIN_VALID_YEAR,
                Msg("TIMESTAMP_VALIDITY", "timestamp", "too_old")))

_check_timestamp_validity(ts, clock) ==
    \* ts.tzinfo on None is an AttributeError
    IF ts.t # "datetime" THEN Throws("AttributeError")
    ELSE IF ~ts.aware
    THEN Returns(<<Msg("TIMESTAMP_VALIDITY", "timestamp", "naive")>>)
    ELSE Returns(
        When(ts.offset # 0, Msg("TIMESTAMP_VALIDITY", "timestamp", "not_utc"))
        \o When(Instant(ts) > clock + MAX_FUTURE_MINUTES,
                Msg("TIMESTAMP_VALIDITY", "timestamp", "future"))
        \o When(Year(ts) < MIN_VALID_YEAR,
                Msg("TIMESTAMP_VALIDITY", "timestamp", "too_old")))

\* mutant: the three tests are chained with elif, so only the first failing
\* rule is reported
_check_symbol_format_first_only(symbol) ==
    IF symbol.t # "str" \/ Len(symbol.v) = 0
    THEN Returns(<<Msg("SYMBOL_FORMAT", "symbol", "empty")>>)
    ELSE IF Len(symbol.v) < 1 \/ Len(symbol.v) > 10
    THEN Returns(<<Msg("SYMBOL_FORMAT", "symbol", "length")>>)
    ELSE IF symbol.v # Upper(symbol.v)
    THEN Returns(<<Msg("SYMBOL_FORMAT", "symbol", "uppercase")>>)
    ELSE Returns(When(~SYMBOL_PATTERN_match(symbol.v),
                      Msg("SYMBOL_FORMAT", "symbol", "pattern")))

_check_symbol_format(symbol) ==
    \* "not symbol" holds of None and of the empty string
    IF symbol.t # "str" \/ Len(symbol.v) = 0
    THEN Returns(<<Msg("SYMBOL_FORMAT", "symbol", "empty")>>)
    ELSE Returns(
        When(Len(symbol.v) < 1 \/ Len(symbol.v) > 10,
             Msg("SYMBOL_FORMAT", "symbol", "length"))
        \o When(symbol.v # Upper(symbol.v),
                Msg("SYMBOL_FORMAT", "symbol", "uppercase"))
        \o When(~SYMBOL_PATTERN_match(symbol.v),
                Msg("SYMBOL_FORMAT", "symbol", "pattern")))

\* "not s or not s.strip()" for a str or None
Blank(s) == s.t # "str" \/ Len(s.v) = 0 \/ Len(Strip(s.v)) = 0

\* mutant: the quantity message carries the tag of the schema's quantity
\* validator
_check_trade_specific_rules_quantity_tag(data) ==
    LET q == data["quantity"]
        le == IF q.t = "Decimal" THEN DecimalLeZero(q)
              ELSE IF q.t = "int" THEN (IF q.v <= 0 THEN "True" ELSE "False")
              ELSE "TypeError"
    IN  IF le \in {"TypeError", "InvalidOperation"} THEN Throws(le)
        ELSE Returns(
            When(~(data["side"].t = "str" /\ data["side"].v \in VALID_SIDES),
                 Msg("TRADE_SPECIFIC", "side", "side"))
            \o When(le = "True", Msg("QUANTITY_VALIDITY", "quantity", "positive"))
            \o When(Blank(data["trade_id"]), Msg("TRADE_SPECIFIC", "trade_id", "empty"))
            \o When(Blank(data["venue"]), Msg("TRADE_SPECIFIC", "venue", "empty")))

\* mutant: the side is compared after case folding
_check_trade_specific_rules_side_folded(data) ==
    LET q == data["quantity"]
        le == IF q.t = "Decimal" THEN DecimalLeZero(q)
              ELSE IF q.t = "int" THEN (IF q.v <= 0 THEN "True" ELSE "False")
              ELSE "TypeError"
    IN  IF le \in {"TypeError", "InvalidOperation"} THEN Throws(le)
        ELSE Returns(
            When(~(data["side"].t = "str" /\ Upper(data["side"].v) \in VALID_SIDES),
                 Msg("TRADE_SPECIFIC", "side", "side"))
            \o When(le = "True", Msg("TRADE_SPECIFIC", "quantity", "positive"))
            \o When(Blank(data["trade_id"]), Msg("TRADE_SPECIFIC", "trade_id", "empty"))
            \o When(Blank(data["venue"]), Msg("TRADE_SPECIFIC", "venue", "empty")))

_check_trade_specific_rules(data) ==
    LET q == data["quantity"]
        \* data.quantity <= 0: None <= 0 is a TypeError
        le == IF q.t = "Decimal" THEN DecimalLeZero(q)
              ELSE IF q.t = "int" THEN (IF q.v <= 0 THEN "True" ELSE "False")
              ELSE "TypeError"
    IN  IF le \in {"TypeError", "InvalidOperation"} THEN Throws(le)
        ELSE Returns(
            When(~(data["side"].t = "str" /\ data["side"].v \in VALID_SIDES),
                 Msg("TRADE_SPECIFIC", "side", "side"))
            \o When(le = "True", Msg("TRADE_SPECIFIC", "quantity", "positive"))
            \o When(Blank(data["trade_id"]), Msg("TRADE_SPECIFIC", "trade_id", "empty"))
            \o When(Blank(data["venue"]), Msg("TRADE_SPECIFIC", "venue", "empty")))

RECURSIVE Extend(_, _, _)
\* errors.extend(check) for the checks cs[i..] in order; the first exception
\* ends the call
Extend(cs, i, errors) ==
    IF i > Len(cs) THEN Returns(errors)
    ELSE IF cs[i].k = "exception" THEN cs[i]
    ELSE Extend(cs, i + 1, errors \o cs[i].errs)

\* what a validate call hands back: (is_valid, errors), or the exception
Verdict(r) ==
    IF r.k = "exception"
    THEN [status |-> "exception", exc |-> r.exc, passed |-> FALSE, errors |-> <<>>]
    ELSE [status |-> "returned", exc |-> "", passed |-> Len(r.errs) = 0,
          errors |-> r.errs]

validate_market_data(data, clock) ==
    Verdict(Extend(<<_check_required_fields_market(data),
                     _check_price_validity(data["price"], "price"),
                     _check_timestamp_validity(data["timestamp"], clock),
                     _check_symbol_format(data["symbol"])>>, 1, <<>>))

validate_trade_data(data, clock) ==
    Verdict(Extend(<<_check_required_fields_trade(data),
                     _check_price_validity(data["price"], "price"),
                     _check_price_validity(data["quantity"], "quantity"),
                     _check_timestamp_validity(data["timestamp"], clock),
                     _check_symbol_format(data["symbol"]),
                     _check_trade_specific_rules(data)>>, 1, <<>>))

(***************************************************************************)
(* The values the caller supplies.  Base is the record of the module       *)
(* docstrings; Core gives each field a few alternatives (among them None   *)
(* and values of the wrong shape) that are combined freely, and Rich the   *)
(* larger families that are tried one field at a time.                     *)
(***************************************************************************)
AAPL == <<"A", "A", "P", "L">>
StrX == Str(<<"x">>)
UtcAt(i) == Dt(TRUE, 0, i)

MarketBase ==
    [symbol |-> Str(AAPL), price |-> Dec(1754300, -4), timestamp |-> UtcAt(NowStart),
     volume |-> Int_(2500000), source |-> StrX]
TradeBase ==
    [trade_id |-> StrX, client_id |-> StrX, symbol |-> Str(AAPL),
     side |-> Str(B_U_Y), quantity |-> Dec(1000000, -4), price |-> Dec(1754300, -4),
     timestamp |-> UtcAt(NowStart), venue |-> StrX]
BaseOf(type) == IF type = "MarketData" THEN MarketBase ELSE TradeBase

Core(field) ==
    CASE field = "symbol" -> {Str(AAPL), Str(<<"a", "a", "p", "l">>), None}
      [] field = "price" -> {Dec(1754300, -4), Dec(-1050, -2), None}
      [] field = "quantity" -> {Dec(1000000, -4), Dec(0, 0), None}
      [] field = "timestamp" ->
            {UtcAt(NowStart), Dt(FALSE, 0, NowStart),
             UtcAt(NowStart + MAX_FUTURE_MINUTES + 1), None}
      [] field = "volume" -> {Int_(2500000), Int_(-100)}
      [] field = "side" -> {Str(B_U_Y), Str(<<"H", "O", "L", "D">>), None}
      [] OTHER -> {StrX, Str(<<>>)}

Alphabet == {"A", "a", "1", ".", " ", "\n", "-"}
Suffixes == UNION {[1..n -> Alphabet] : n \in 0..MaxSuffix}
Pad(k) == [i \in 1..k |-> "A"]
\* strings of length 0 .. MaxSuffix and 9 .. 9 + MaxSuffix
Symbols == {Str(Pad(k) \o s) : k \in {0, 10 - 1}, s \in Suffixes}

FiniteDecimals ==
    {Dec(c, e) : c \in (-1)..MaxCoef,
                 e \in (-(MAX_DECIMAL_PLACES + MaxExtraPlaces))..1}
Decimals ==
    FiniteDecimals
    \cup {DecSpecial("NaN"), DecSpecial("Infinity")}
    \cup {Str(<<"a">>), Str(<<"1", ".", "1">>), Str(<<" ", "1">>),
          Str(<<"-", "1">>), Int_(1), Int_(0), Dec(100123456, -6), Dec(100000, -5)}

Timestamps ==
    {Dt(TRUE, o, i + o) :
        o \in {0, 60},
        i \in {-1, 0, NowStart + MAX_FUTURE_MINUTES, NowStart + MAX_FUTURE_MINUTES + 1}}
    \cup {Dt(FALSE, 0, -1)}

Texts ==
    {Str(<<" ">>), Str(<<" ", "\n">>), Str(<<" ", "x">>), Str(<<"x", " ">>), None}
Sides ==
    {Str(S_E_L_L), Str(<<"b", "u", "y">>), Str(<<"S", "e", "l", "l">>), Str(<<>>),
     Str(<<"B", "U", "Y", " ">>)}

Rich(field) ==
    CASE field = "symbol" -> Symbols
      [] field \in {"price", "quantity"} -> Decimals
      [] field = "timestamp" -> Timestamps
      [] field = "volume" -> {Int_(0), Int_(-1), None}
      [] field = "side" -> Sides
      [] OTHER -> Texts

Deviations(r, base) == {f \in DOMAIN base : r[f] # base[f]}

MarketInputs ==
    {r \in [symbol : Core("symbol"), price : Core("price"),
            timestamp : Core("timestamp"), volume : Core("volume"),
            source : Core("source")] :
        Cardinality(Deviations(r, MarketBase)) <= MaxDeviations}
    \cup UNION {{[MarketBase EXCEPT ![f] = v] : v \in Rich(f)} :
                    f \in FieldSet("MarketData")}
TradeInputs ==
    {r \in [trade_id : Core("trade_id"), client_id : Core("client_id"),
            symbol : Core("symbol"), side : Core("side"),
            quantity : Core("quantity"), price : Core("price"),
            timestamp : Core("timestamp"), venue : Core("venue")] :
        Cardinality(Deviations(r, TradeBase)) <= MaxDeviations}
    \cup UNION {{[TradeBase EXCEPT ![f] = v] : v \in Rich(f)} :
                    f \in FieldSet("TradeData")}
InputsOf(type) == IF type = "MarketData" THEN MarketInputs ELSE TradeInputs

\* the values assigned to a field of a live record: one that the field
\* accepts (at some clock) and one that it refuses; the text fields are
\* assigned the empty string only
Assigned(field) ==
    CASE field = "symbol" -> {Str(<<"A", "\n">>), Str(<<"a", "a", "p", "l">>)}
      [] field = "price" -> {Dec(1, 0), DecSpecial("NaN")}
      [] field = "quantity" -> {Dec(1, 0), Dec(0, 0)}
      [] field = "timestamp" ->
            {UtcAt(NowStart + MAX_FUTURE_MINUTES + 1), Dt(FALSE, 0, NowStart)}
      [] field = "volume" -> {Int_(0), Int_(-100)}
      [] field = "side" -> {Str(S_E_L_L), Str(<<"H", "O", "L", "D">>)}
      [] OTHER -> {Str(<<>>)}

Types == {"MarketData", "TradeData"}

(***************************************************************************)
(* State.                                                                  *)
(*   now      the wall clock, minutes since 2000-01-01T00:00Z              *)
(*   rec      the live record: its class and its field values              *)
(*   origin   how rec came to be: "constructor" or "model_construct"       *)
(*   assigns  the number of field assignments rec has taken since          *)
(*   stamped  the clock read when rec's timestamp was last set             *)
(*   out      what the last call did: its arguments, the clock it read and *)
(*            what it returned or raised                                   *)
(***************************************************************************)
NoRec == [type |-> "none", f |-> <<>>]
NoOut ==
    [op |-> "none", clock |-> 0, status |-> "", exc |-> "", errors |-> <<>>,
     passed |-> FALSE, field |-> "", input |-> None]

\* no batch check has been called yet
NoInv ==
    [op |-> "none", status |-> "", value |-> FALSE, exc |-> "", count |-> 0, diag |-> <<>>]

\* the two threads that may call into the validation code at the same time
Threads == {1, 2}
\* no call is under way in any thread
NoFrames == [th \in Threads |-> [pc |-> "idle"]]

Init ==
    /\ now = NowStart
    /\ rec = NoRec
    /\ origin = "none"
    /\ assigns = 0
    /\ stamped = 0
    /\ out = NoOut
    /\ batch1 = <<>>
    /\ batch2 = <<>>
    /\ inv = NoInv
    /\ frames = NoFrames

\* a record has been asked for in this behaviour
Created == out # NoOut

\* time passes
Tick ==
    /\ now < NowStart + MaxTicks
    /\ now' = now + 1
    /\ UNCHANGED <<rec, origin, assigns, stamped, out>>
    /\ UNCHANGED batchvars

\* MarketData(**raw) / TradeData(**raw): the public constructor
Construct(type, raw) ==
    LET r == ModelValidate(type, raw, now)
    IN  /\ ~Created
        /\ rec' = IF r.status = "ok" THEN [type |-> type, f |-> r.values] ELSE NoRec
        /\ origin' = IF r.status = "ok" THEN "constructor" ELSE "none"
        /\ out' = [op |-> "construct", clock |-> now, status |-> r.status,
                   exc |-> r.exc, errors |-> r.errors, passed |-> r.status = "ok",
                   field |-> type, input |-> raw]
        /\ stamped' = now
        /\ UNCHANGED <<now, assigns>>
        /\ UNCHANGED batchvars

\* MarketData.model_construct(**raw) / TradeData.model_construct(**raw):
\* builds the instance without running any validator
ModelConstruct(type, raw) ==
    /\ ~Created
    /\ rec' = [type |-> type, f |-> raw]
    /\ origin' = "model_construct"
    /\ out' = [op |-> "model_construct", clock |-> now, status |-> "ok",
               exc |-> "", errors |-> <<>>, passed |-> TRUE,
               field |-> type, input |-> raw]
    /\ stamped' = now
    /\ UNCHANGED <<now, assigns>>
    /\ UNCHANGED batchvars

\* mutant: validate_assignment is off, the value is stored whatever the
\* field's validation says
Assign_unvalidated(field, value) ==
    LET r == FieldOutcome(rec.type, field, value, now)
    IN  /\ origin = "constructor"
        /\ assigns < MaxAssigns
        /\ field \in FieldSet(rec.type)
        /\ rec' = [rec EXCEPT !.f[field] = value]
        /\ assigns' = assigns + 1
        /\ stamped' = IF field = "timestamp" THEN now ELSE stamped
        /\ out' = [op |-> "assign", clock |-> now,
                   status |-> IF r.k = "ok" THEN "ok"
                              ELSE IF r.k = "ValueError" THEN "ValidationError"
                              ELSE "exception",
                   exc |-> IF r.k = "exception" THEN r.tag ELSE "",
                   errors |-> IF r.k = "ValueError" THEN <<Entry(field, r)>> ELSE <<>>,
                   passed |-> r.k = "ok", field |-> field, input |-> value]
        /\ UNCHANGED <<now, origin>>
        /\ UNCHANGED batchvars

\* record.field = value under validate_assignment=True, frozen=False: the
\* field's validation runs on the value; the field is set only if it passes
Assign(field, value) ==
    LET r == FieldOutcome(rec.type, field, value, now)
    IN  /\ origin = "constructor"
        /\ assigns < MaxAssigns
        /\ field \in FieldSet(rec.type)
        /\ rec' = IF r.k = "ok" THEN [rec EXCEPT !.f[field] = r.v] ELSE rec
        /\ assigns' = IF r.k = "ok" THEN assigns + 1 ELSE assigns
        /\ stamped' = IF r.k = "ok" /\ field = "timestamp" THEN now ELSE stamped
        /\ out' = [op |-> "assign", clock |-> now,
                   status |-> IF r.k = "ok" THEN "ok"
                              ELSE IF r.k = "ValueError" THEN "ValidationError"
                              ELSE "exception",
                   exc |-> IF r.k = "exception" THEN r.tag ELSE "",
                   errors |-> IF r.k = "ValueError" THEN <<Entry(field, r)>> ELSE <<>>,
                   passed |-> r.k = "ok", field |-> field, input |-> value]
        /\ UNCHANGED <<now, origin>>
        /\ UNCHANGED batchvars

\* ContractValidator().validate_market_data(rec) / validate_trade_data(rec)
Validate ==
    LET v == IF rec.type = "MarketData"
             THEN validate_market_data(rec.f, now)
             ELSE validate_trade_data(rec.f, now)
    IN  /\ rec.type # "none"
        /\ out' = [op |-> "validate", clock |-> now, status |-> v.status,
                   exc |-> v.exc, errors |-> v.errors, passed |-> v.passed,
                   field |-> rec.type, input |-> None]
        /\ UNCHANGED <<now, rec, origin, assigns, stamped>>
        /\ UNCHANGED batchvars

Next ==
    \/ Tick
    \/ ~Created /\ \E type \in Types : \E raw \in InputsOf(type) : Construct(type, raw)
    \/ ~Created /\ \E type \in Types : \E raw \in InputsOf(type) : ModelConstruct(type, raw)
    \/ origin = "constructor" /\ assigns < MaxAssigns
         /\ \E field \in FieldSet(rec.type) : \E value \in Assigned(field) : Assign(field, value)
    \/ Validate

Spec == Init /\ [][Next]_vars

\* the life of a record that is not assigned to: it is built at some time
\* and validated at that and at later times
NextUnmodified ==
    \/ Tick
    \/ ~Created /\ \E type \in Types : \E raw \in InputsOf(type) : Construct(type, raw)
    \/ ~Created /\ \E type \in Types : \E raw \in InputsOf(type) : ModelConstruct(type, raw)
    \/ Validate

SpecUnmodified == Init /\ [][NextUnmodified]_vars

(***************************************************************************)
(* validation/invariants.py: the batch invariant checks.  A batch is a     *)
(* list whose items are records or None; of a record the checks read the   *)
(* attributes they need with getattr(item, name, None).  A check hands     *)
(* back a boolean and logs a diagnostic: count is the number of offending  *)
(* items the diagnostic states, diag the list of them it shows (0-based    *)
(* indices, violations, duplicates, unknown symbols), cut to a limit.      *)
(***************************************************************************)
\* batches hold at most this many items
MaxBatch == 3
\* aware timestamps of batch items range over minute 0 .. MaxStamp
MaxStamp == 2

\* a record as the batch checks see it
Item(ts) == [t |-> "record", timestamp |-> ts]
\* getattr(item, name, None): None for a None item and for a record
\* without that attribute
getattr(item, name) ==
    IF item.t = "record" /\ name \in DOMAIN item THEN item[name] ELSE None
\* getattr(item, "timestamp", None)
TimestampOf(item) == getattr(item, "timestamp")

\* a > b on two datetimes: comparing a naive with an aware one is a TypeError
DatetimeGt(a, b) ==
    IF a.aware # b.aware THEN "TypeError"
    ELSE IF a.aware THEN (IF Instant(a) > Instant(b) THEN "True" ELSE "False")
    ELSE (IF a.local > b.local THEN "True" ELSE "False")

\* the slice seq[:n]
Slice(seq, n) == IF Len(seq) <= n THEN seq ELSE SubSeq(seq, 1, n)
\* the "[:10]" of the diagnostics of check_idempotency, check_monotonic_timestamps,
\* check_completeness and check_uniqueness
DIAGNOSTIC_LIMIT == 10
\* the "[:20]" of the diagnostic of check_referential_integrity
UNKNOWN_SYMBOLS_LIMIT == 20

\* a call that returned value, having logged len(found) as its count and
\* found[:limit] as its list of offending items
Report(value, found, limit) ==
    [status |-> "returned", value |-> value, exc |-> "",
     count |-> Len(found), diag |-> Slice(found, limit)]
Returned(value, diag) == Report(value, diag, DIAGNOSTIC_LIMIT)
Raised(exc) ==
    [status |-> "exception", value |-> FALSE, exc |-> exc, count |-> 0, diag |-> <<>>]

RECURSIVE Differences(_, _, _)
\* the loop over zip(batch1, batch2) from position i on: the indices that differ
Differences(b1, b2, i) ==
    IF i > Len(b1) \/ i > Len(b2) THEN <<>>
    ELSE (IF b1[i] # b2[i] THEN <<i - 1>> ELSE <<>>) \o Differences(b1, b2, i + 1)

\* mutant: the lengths are not compared, zip stops at the shorter batch
check_idempotency_zip_only(b1, b2) ==
    LET differences == Differences(b1, b2, 1)
    IN  IF differences # <<>> THEN Returned(FALSE, differences)
        ELSE Returned(TRUE, <<>>)

check_idempotency(b1, b2) ==
    IF Len(b1) # Len(b2) THEN Returned(FALSE, <<>>)
    ELSE LET differences == Differences(b1, b2, 1)
         IN  IF differences # <<>> THEN Returned(FALSE, differences)
             ELSE Returned(TRUE, <<>>)

RECURSIVE Violations_ties_refused(_, _, _)
\* mutant: the comparison is current_ts >= next_ts, so equal timestamps fail
Violations_ties_refused(batch, i, found) ==
    IF i > Len(batch) - 1 THEN Returned(found = <<>>, found)
    ELSE LET current_ts == TimestampOf(batch[i])
             next_ts == TimestampOf(batch[i + 1])
         IN  IF IsNone(current_ts) \/ IsNone(next_ts)
             THEN Violations_ties_refused(batch, i + 1,
                     Append(found, [index |-> i - 1, reason |-> "missing timestamp attribute"]))
             ELSE IF DatetimeGt(current_ts, next_ts) = "TypeError"
             THEN Raised("TypeError")
             ELSE IF DatetimeGt(current_ts, next_ts) = "True" \/ current_ts = next_ts
             THEN Violations_ties_refused(batch, i + 1,
                     Append(found, [index |-> i - 1, reason |-> "timestamp decreased"]))
             ELSE Violations_ties_refused(batch, i + 1, found)

RECURSIVE Violations_abort_on_missing(_, _, _)
\* mutant: a missing timestamp ends the loop (break instead of continue)
Violations_abort_on_missing(batch, i, found) ==
    IF i > Len(batch) - 1 THEN Returned(found = <<>>, found)
    ELSE LET current_ts == TimestampOf(batch[i])
             next_ts == TimestampOf(batch[i + 1])
         IN  IF IsNone(current_ts) \/ IsNone(next_ts)
             THEN Returned(FALSE,
                     Append(found, [index |-> i - 1, reason |-> "missing timestamp attribute"]))
             ELSE IF DatetimeGt(current_ts, next_ts) = "TypeError"
             THEN Raised("TypeError")
             ELSE IF DatetimeGt(current_ts, next_ts) = "True"
             THEN Violations_abort_on_missing(batch, i + 1,
                     Append(found, [index |-> i - 1, reason |-> "timestamp decreased"]))
             ELSE Violations_abort_on_missing(batch, i + 1, found)

RECURSIVE Violations(_, _, _)
\* the loop over range(len(batch) - 1) from pair i on (1-based), with the
\* violations found so far; a TypeError in the comparison ends the call
Violations(batch, i, found) ==
    IF i > Len(batch) - 1 THEN Returned(found = <<>>, found)
    ELSE LET current_ts == TimestampOf(batch[i])
             next_ts == TimestampOf(batch[i + 1])
         IN  IF IsNone(current_ts) \/ IsNone(next_ts)
             THEN Violations(batch, i + 1,
                     Append(found, [index |-> i - 1, reason |-> "missing timestamp attribute"]))
             ELSE IF DatetimeGt(current_ts, next_ts) = "TypeError"
             THEN Raised("TypeError")
             ELSE IF DatetimeGt(current_ts, next_ts) = "True"
             THEN Violations(batch, i + 1,
                     Append(found, [index |-> i - 1, reason |-> "timestamp decreased"]))
             ELSE Violations(batch, i + 1, found)

check_monotonic_timestamps(batch) ==
    IF Len(batch) <= 1 THEN Returned(TRUE, <<>>)
    ELSE Violations(batch, 1, <<>>)

RECURSIVE NullIndices(_, _)
\* the loop over enumerate(batch) from position i on: the indices of None
NullIndices(batch, i) ==
    IF i > Len(batch) THEN <<>>
    ELSE (IF IsNone(batch[i]) THEN <<i - 1>> ELSE <<>>) \o NullIndices(batch, i + 1)

\* mutant: the emptiness test is missing, the empty batch passes vacuously
check_completeness_empty_passes(batch) ==
    LET null_indices == NullIndices(batch, 1)
    IN  IF null_indices # <<>> THEN Returned(FALSE, null_indices)
        ELSE Returned(TRUE, <<>>)

check_completeness(batch) ==
    IF Len(batch) = 0 THEN Returned(FALSE, <<>>)
    ELSE LET null_indices == NullIndices(batch, 1)
         IN  IF null_indices # <<>> THEN Returned(FALSE, null_indices)
             ELSE Returned(TRUE, <<>>)

(***************************************************************************)
(* The batches the caller supplies: items are None, a record without       *)
(* timestamp, records with a UTC timestamp, and a record with a naive one. *)
(* The second batch of check_idempotency is the first one itself, or the   *)
(* first one shortened, lengthened, or changed at one or at all positions. *)
(***************************************************************************)
Items ==
    {None, Item(None), Item(Dt(FALSE, 0, 1))} \cup {Item(UtcAt(i)) : i \in 0..MaxStamp}
Batches == UNION {[1..n -> Items] : n \in 0..MaxBatch}
Variants(b) ==
    {b, Append(b, None), SubSeq(b, 1, Len(b) - 1)}
    \cup {[b EXCEPT ![i] = x] : i \in 1..Len(b), x \in {None, Item(UtcAt(0))}}
    \cup {[i \in 1..Len(b) |-> Item(UtcAt(0))]}

InitBatch ==
    /\ now = NowStart
    /\ rec = NoRec
    /\ origin = "none"
    /\ assigns = 0
    /\ stamped = 0
    /\ out = NoOut
    /\ batch1 \in Batches
    /\ batch2 \in Variants(batch1)
    /\ inv = NoInv
    /\ frames = NoFrames

Called(op, r) == [op |-> op] @@ r

\* check_idempotency(batch1, batch2)
CheckIdempotency ==
    /\ inv' = Called("check_idempotency", check_idempotency(batch1, batch2))
    /\ UNCHANGED <<batch1, batch2, frames>>
    /\ UNCHANGED recordvars

\* check_monotonic_timestamps(batch1)
CheckMonotonicTimestamps ==
    /\ inv' = Called("check_monotonic_timestamps", check_monotonic_timestamps(batch1))
    /\ UNCHANGED <<batch1, batch2, frames>>
    /\ UNCHANGED recordvars

\* check_completeness(batch1)
CheckCompleteness ==
    /\ inv' = Called("check_completeness", check_completeness(batch1))
    /\ UNCHANGED <<batch1, batch2, frames>>
    /\ UNCHANGED recordvars

NextBatch ==
    \/ CheckIdempotency
    \/ CheckMonotonicTimestamps
    \/ CheckCompleteness

SpecBatch == InitBatch /\ [][NextBatch]_vars

(***************************************************************************)
(* check_uniqueness and check_referential_integrity.  The records they     *)
(* read carry trade_id, client_id and symbol; an attribute name is a       *)
(* string, an optional one (scope_key) the empty tuple for None or the     *)
(* one-element tuple of the name.                                          *)
(***************************************************************************)
\* batches of trades hold at most this many items
MaxRecords == 3
\* the long batches hold this many items
MaxLarge == 12

Trade(trade_id, client_id, symbol) ==
    [t |-> "record", trade_id |-> trade_id, client_id |-> client_id, symbol |-> symbol]
\* an object that has none of the attributes the checks read
Bare == [t |-> "record"]

\* the scope all records share when no scope_key is given
GLOBAL_SCOPE == Str(<<"_", "_", "g", "l", "o", "b", "a", "l", "_", "_">>)
\* "if scope_key:" is false for None and for the empty string
Truthy(scope_key) == scope_key # <<>> /\ scope_key[1] # ""
\* str(value) of a string or of None
str(value) == IF value.t = "str" THEN value ELSE Str(<<"N", "o", "n", "e">>)

\* mutant: the scope is ignored, every record is put in the global scope
uniqueness_step_scope_ignored(records, key, scope_key, f) ==
    LET key_value == getattr(records[f.i], key)
    IN  IF IsNone(key_value) THEN [f EXCEPT !.i = f.i + 1]
        ELSE LET at == <<GLOBAL_SCOPE, key_value>>
                 earlier == IF at \in DOMAIN f.seen THEN f.seen[at] ELSE <<>>
                 duplicate ==
                     [key |-> key, key_value |-> str(key_value), scope_key |-> scope_key,
                      scope_value |-> <<>>, indices |-> Append(earlier, f.i - 1)]
             IN  [i |-> f.i + 1,
                  seen |-> (at :> Append(earlier, f.i - 1)) @@ f.seen,
                  duplicates |-> IF at \in DOMAIN f.seen
                                 THEN Append(f.duplicates, duplicate)
                                 ELSE f.duplicates]

\* mutant: seen is overwritten instead of extended, so that only the key
\* met last is remembered
uniqueness_step_last_only(records, key, scope_key, f) ==
    LET key_value == getattr(records[f.i], key)
    IN  IF IsNone(key_value) THEN [f EXCEPT !.i = f.i + 1]
        ELSE LET scope_value == IF Truthy(scope_key)
                                THEN getattr(records[f.i], scope_key[1])
                                ELSE GLOBAL_SCOPE
                 at == <<scope_value, key_value>>
                 earlier == IF at \in DOMAIN f.seen THEN f.seen[at] ELSE <<>>
                 duplicate ==
                     [key |-> key, key_value |-> str(key_value), scope_key |-> scope_key,
                      scope_value |-> IF scope_value # GLOBAL_SCOPE
                                      THEN <<str(scope_value)>> ELSE <<>>,
                      indices |-> Append(earlier, f.i - 1)]
             IN  [i |-> f.i + 1,
                  seen |-> (at :> Append(earlier, f.i - 1)),
                  duplicates |-> IF at \in DOMAIN f.seen
                                 THEN Append(f.duplicates, duplicate)
                                 ELSE f.duplicates]

\* one pass of the loop body of check_uniqueness, for the record at position
\* f.i (1-based): f holds the loop's locals i, seen and duplicates; seen maps
\* <<scope_value, key_value>> to the 0-based indices met so far
uniqueness_step(records, key, scope_key, f) ==
    LET key_value == getattr(records[f.i], key)
    IN  IF IsNone(key_value) THEN [f EXCEPT !.i = f.i + 1]
        ELSE LET scope_value == IF Truthy(scope_key)
                                THEN getattr(records[f.i], scope_key[1])
                                ELSE GLOBAL_SCOPE
                 at == <<scope_value, key_value>>
                 earlier == IF at \in DOMAIN f.seen THEN f.seen[at] ELSE <<>>
                 duplicate ==
                     [key |-> key, key_value |-> str(key_value), scope_key |-> scope_key,
                      scope_value |-> IF scope_value # GLOBAL_SCOPE
                                      THEN <<str(scope_value)>> ELSE <<>>,
                      indices |-> Append(earlier, f.i - 1)]
             IN  [i |-> f.i + 1,
                  seen |-> (at :> Append(earlier, f.i - 1)) @@ f.seen,
                  duplicates |-> IF at \in DOMAIN f.seen
                                 THEN Append(f.duplicates, duplicate)
                                 ELSE f.duplicates]

\* the locals of check_uniqueness before the loop
uniqueness_start == [i |-> 1, seen |-> <<>>, duplicates |-> <<>>]

RECURSIVE Duplicates(_, _, _, _)
\* the loop over enumerate(records) from the locals f on: the duplicates found
Duplicates(records, key, scope_key, f) ==
    IF f.i > Len(records) THEN f.duplicates
    ELSE Duplicates(records, key, scope_key, uniqueness_step(records, key, scope_key, f))

\* what check_uniqueness does once the loop has left the list duplicates
uniqueness_finish(duplicates) ==
    IF duplicates # <<>> THEN Returned(FALSE, duplicates) ELSE Returned(TRUE, <<>>)

check_uniqueness(records, key, scope_key) ==
    IF Len(records) = 0 THEN Returned(TRUE, <<>>)
    ELSE uniqueness_finish(Duplicates(records, key, scope_key, uniqueness_start))

\* unknown_symbols[symbol].append(index): unknown is the dict as the list of
\* its entries in insertion order
Noted(unknown, symbol, index) ==
    IF \E k \in 1..Len(unknown) : unknown[k].symbol = symbol
    THEN [k \in 1..Len(unknown) |->
            IF unknown[k].symbol = symbol
            THEN [unknown[k] EXCEPT !.indices = Append(@, index)]
            ELSE unknown[k]]
    ELSE Append(unknown, [symbol |-> symbol, indices |-> <<index>>])

RECURSIVE UnknownSymbols_none_counted(_, _, _, _)
\* mutant: a missing symbol is not skipped, None is looked up like a symbol
UnknownSymbols_none_counted(trades, known_symbols, i, unknown) ==
    IF i > Len(trades) THEN unknown
    ELSE LET symbol == getattr(trades[i], "symbol")
         IN  IF symbol \notin known_symbols
             THEN UnknownSymbols_none_counted(trades, known_symbols, i + 1,
                                              Noted(unknown, symbol, i - 1))
             ELSE UnknownSymbols_none_counted(trades, known_symbols, i + 1, unknown)

RECURSIVE UnknownSymbols(_, _, _, _)
\* the loop over enumerate(trades) from position i on
UnknownSymbols(trades, known_symbols, i, unknown) ==
    IF i > Len(trades) THEN unknown
    ELSE LET symbol == getattr(trades[i], "symbol")
         IN  IF IsNone(symbol) THEN UnknownSymbols(trades, known_symbols, i + 1, unknown)
             ELSE IF symbol \notin known_symbols
             THEN UnknownSymbols(trades, known_symbols, i + 1, Noted(unknown, symbol, i - 1))
             ELSE UnknownSymbols(trades, known_symbols, i + 1, unknown)

RECURSIVE Affected(_, _)
\* sum(len(v) for v in unknown_symbols.values()), from entry k on
Affected(unknown, k) ==
    IF k > Len(unknown) THEN 0 ELSE Len(unknown[k].indices) + Affected(unknown, k + 1)

\* mutant: the strict flag is not read, unknown symbols never fail the call
check_referential_integrity_advisory(trades, known_symbols, strict) ==
    IF Len(trades) = 0 THEN Returned(TRUE, <<>>) @@ [affected |-> 0]
    ELSE LET unknown_symbols == UnknownSymbols(trades, known_symbols, 1, <<>>)
             keys == [k \in 1..Len(unknown_symbols) |-> unknown_symbols[k].symbol]
         IN  Report(TRUE, keys, UNKNOWN_SYMBOLS_LIMIT)
                @@ [affected |-> Affected(unknown_symbols, 1)]

check_referential_integrity(trades, known_symbols, strict) ==
    IF Len(trades) = 0 THEN Returned(TRUE, <<>>) @@ [affected |-> 0]
    ELSE LET unknown_symbols == UnknownSymbols(trades, known_symbols, 1, <<>>)
             keys == [k \in 1..Len(unknown_symbols) |-> unknown_symbols[k].symbol]
         IN  Report(unknown_symbols = <<>> \/ ~strict, keys, UNKNOWN_SYMBOLS_LIMIT)
                @@ [affected |-> Affected(unknown_symbols, 1)]

(***************************************************************************)
(* The batches of trades the caller supplies: None, an object without      *)
(* attributes, trades over two trade ids and two client ids (either may    *)
(* be missing), trades with another or no symbol; and long batches of      *)
(* MaxLarge items that are None up to or from some position and else       *)
(* trades with one trade id and a symbol of their own each.  The second    *)
(* batch is the first one or, for a long batch, as many None.              *)
(***************************************************************************)
TRD_001 == Str(<<"T", "R", "D", "-", "0", "0", "1">>)
TRD_002 == Str(<<"T", "R", "D", "-", "0", "0", "2">>)
CLIENT_1 == Str(<<"C", "1">>)
CLIENT_2 == Str(<<"C", "2">>)
ZZZZ == Str(<<"Z", "Z", "Z", "Z">>)
\* the symbol of the i-th trade of a long batch
Sym(i) == Str([k \in 1..i |-> "S"])

Trades ==
    {None, Bare,
     Trade(TRD_001, CLIENT_1, Str(AAPL)), Trade(TRD_001, CLIENT_2, Str(AAPL)),
     Trade(TRD_002, CLIENT_1, Str(AAPL)), Trade(None, CLIENT_1, Str(AAPL)),
     Trade(TRD_001, None, Str(AAPL)),
     Trade(TRD_001, CLIENT_1, ZZZZ), Trade(TRD_001, CLIENT_1, None)}
Records == UNION {[1..n -> Trades] : n \in 0..MaxRecords}
LargeRecords ==
    {[i \in 1..MaxLarge |-> IF i \in nulls THEN None ELSE Trade(TRD_001, CLIENT_1, Sym(i))] :
        nulls \in {1..k : k \in 0..MaxLarge} \cup {k..MaxLarge : k \in 1..MaxLarge}}
Keys == {"trade_id", "symbol"}
ScopeKeys == {<<>>, <<"">>, <<"client_id">>}
KnownSets == SUBSET {Str(AAPL), ZZZZ}

InitRecords ==
    /\ now = NowStart
    /\ rec = NoRec
    /\ origin = "none"
    /\ assigns = 0
    /\ stamped = 0
    /\ out = NoOut
    /\ batch1 \in Records \cup LargeRecords
    /\ batch2 \in {batch1} \cup {[i \in 1..Len(batch1) |-> None] : x \in {batch1} \cap LargeRecords}
    /\ inv = NoInv
    /\ frames = NoFrames

CalledWith(op, args, r) == [op |-> op, args |-> args] @@ r

\* check_uniqueness(batch1, key, scope_key)
CheckUniqueness ==
    \E key \in Keys, scope_key \in ScopeKeys :
        /\ inv' = CalledWith("check_uniqueness", [key |-> key, scope_key |-> scope_key],
                             check_uniqueness(batch1, key, scope_key))
        /\ UNCHANGED <<batch1, batch2, frames>>
        /\ UNCHANGED recordvars

\* check_referential_integrity(batch1, known_symbols, strict)
CheckReferentialIntegrity ==
    \E known_symbols \in KnownSets, strict \in BOOLEAN :
        /\ inv' = CalledWith("check_referential_integrity",
                             [known_symbols |-> known_symbols, strict |-> strict],
                             check_referential_integrity(batch1, known_symbols, strict))
        /\ UNCHANGED <<batch1, batch2, frames>>
        /\ UNCHANGED recordvars

NextRecords ==
    \/ CheckIdempotency
    \/ CheckMonotonicTimestamps
    \/ CheckCompleteness
    \/ CheckUniqueness
    \/ CheckReferentialIntegrity

SpecRecords == InitRecords /\ [][NextRecords]_vars

(***************************************************************************)
(* Two threads calling check_uniqueness and ContractValidator.validate_*   *)
(* at the same time.  A call's locals (i, seen, duplicates; errors) live   *)
(* in the frame of its thread; its arguments are references to the        *)
(* caller's objects: thread 1 is handed batch1, thread 2 batch2, which     *)
(* holds records of batch1, and both are handed the record rec.  A step    *)
(* of a thread is one pass of the loop of check_uniqueness, or one of the  *)
(* errors.extend(check) lines of validate_*; the steps of the two threads  *)
(* interleave in any order.                                                *)
(***************************************************************************)
\* the shared batches hold at most this many items
MaxShared == 2

SharedTrades ==
    {None, Trade(TRD_001, CLIENT_1, Str(AAPL)), Trade(TRD_001, CLIENT_2, Str(AAPL))}
SharedBatches == UNION {[1..n -> SharedTrades] : n \in 0..MaxShared}
SharedRecords ==
    {[type |-> "MarketData", f |-> MarketBase],
     [type |-> "MarketData",
      f |-> [MarketBase EXCEPT !["symbol"] = Str(<<"a">>), !["price"] = Dec(-1, 0)]],
     [type |-> "MarketData", f |-> [MarketBase EXCEPT !["timestamp"] = None]],
     [type |-> "TradeData", f |-> TradeBase],
     [type |-> "TradeData", f |-> [TradeBase EXCEPT !["side"] = Str(<<"x">>)]]}

InitConcurrent ==
    /\ now = NowStart
    /\ rec \in SharedRecords
    /\ origin = "model_construct"
    /\ assigns = 0
    /\ stamped = NowStart
    /\ out = NoOut
    /\ batch1 \in SharedBatches
    /\ batch2 \in {batch1, SubSeq(batch1, 2, Len(batch1))}
    /\ inv = NoInv
    /\ frames = NoFrames

\* the batch the call of thread th was handed
BatchOf(th) == IF th = 1 THEN batch1 ELSE batch2
\* the frame of a call that has returned or raised
Done(frame, result) == [frame EXCEPT !.pc = "done"] @@ [result |-> result]

\* thread th calls check_uniqueness(batch, key, scope_key): up to the loop
CallUniqueness(th) ==
    /\ frames[th].pc = "idle"
    /\ \E key \in Keys, scope_key \in ScopeKeys :
          LET frame == [pc |-> "loop", fn |-> "check_uniqueness",
                        args |-> [key |-> key, scope_key |-> scope_key],
                        batch |-> BatchOf(th), record |-> rec, f |-> uniqueness_start]
          IN  frames' = [frames EXCEPT ![th] =
                            IF Len(BatchOf(th)) = 0 THEN Done(frame, Returned(TRUE, <<>>))
                            ELSE frame]
    /\ UNCHANGED <<batch1, batch2, inv>>
    /\ UNCHANGED recordvars

\* mutant: seen is one dictionary shared by all calls instead of a local of
\* each, so that a pass also finds what the other thread has put there
StepUniqueness_shared_seen(th) ==
    LET frame == frames[th]
        other == frames[CHOOSE o \in Threads : o # th]
        seen == IF other.pc # "idle" /\ other.fn = "check_uniqueness"
                THEN other.f.seen @@ frame.f.seen ELSE frame.f.seen
    IN  /\ frame.pc = "loop"
        /\ frame.fn = "check_uniqueness"
        /\ frames' = [frames EXCEPT ![th] =
              IF frame.f.i > Len(BatchOf(th))
              THEN Done(frame, uniqueness_finish(frame.f.duplicates))
              ELSE [frame EXCEPT !.f = uniqueness_step(BatchOf(th), frame.args.key,
                                          frame.args.scope_key,
                                          [frame.f EXCEPT !.seen = seen])]]
        /\ UNCHANGED <<batch1, batch2, inv>>
        /\ UNCHANGED recordvars

\* thread th makes one pass of the loop of check_uniqueness, or leaves the
\* loop and returns
StepUniqueness(th) ==
    LET frame == frames[th]
    IN  /\ frame.pc = "loop"
        /\ frame.fn = "check_uniqueness"
        /\ frames' = [frames EXCEPT ![th] =
              IF frame.f.i > Len(BatchOf(th))
              THEN Done(frame, uniqueness_finish(frame.f.duplicates))
              ELSE [frame EXCEPT !.f = uniqueness_step(BatchOf(th), frame.args.key,
                                                       frame.args.scope_key, frame.f)]]
        /\ UNCHANGED <<batch1, batch2, inv>>
        /\ UNCHANGED recordvars

\* the contract checks of validate_market_data / validate_trade_data in the
\* order of their errors.extend(...) lines
ContractChecks(type, data, clock) ==
    IF type = "MarketData"
    THEN <<_check_required_fields_market(data),
           _check_price_validity(data["price"], "price"),
           _check_timestamp_validity(data["timestamp"], clock),
           _check_symbol_format(data["symbol"])>>
    ELSE <<_check_required_fields_trade(data),
           _check_price_validity(data["price"], "price"),
           _check_price_validity(data["quantity"], "quantity"),
           _check_timestamp_validity(data["timestamp"], clock),
           _check_symbol_format(data["symbol"]),
           _check_trade_specific_rules(data)>>

\* thread th calls validate_market_data(rec) / validate_trade_data(rec):
\* errors = []
CallValidate(th) ==
    /\ frames[th].pc = "idle"
    /\ frames' = [frames EXCEPT ![th] =
          [pc |-> "loop", fn |-> "validate", args |-> <<>>,
           batch |-> BatchOf(th), record |-> rec, f |-> [i |-> 1, errors |-> <<>>]]]
    /\ UNCHANGED <<batch1, batch2, inv>>
    /\ UNCHANGED recordvars

\* thread th runs the next errors.extend(check) line of its validate call,
\* or, past the last one, returns (is_valid, errors); a check that raises
\* ends the call
StepValidate(th) ==
    LET frame == frames[th]
        cs == ContractChecks(rec.type, rec.f, now)
    IN  /\ frame.pc = "loop"
        /\ frame.fn = "validate"
        /\ frames' = [frames EXCEPT ![th] =
              IF frame.f.i > Len(cs) THEN Done(frame, Verdict(Returns(frame.f.errors)))
              ELSE IF cs[frame.f.i].k = "exception" THEN Done(frame, Verdict(cs[frame.f.i]))
              ELSE [frame EXCEPT !.f = [i |-> frame.f.i + 1,
                                        errors |-> frame.f.errors \o cs[frame.f.i].errs]]]
        /\ UNCHANGED <<batch1, batch2, inv>>
        /\ UNCHANGED recordvars

NextConcurrent ==
    \E th \in Threads :
        \/ CallUniqueness(th)
        \/ StepUniqueness(th)
        \/ CallValidate(th)
        \/ StepValidate(th)

SpecConcurrent == InitConcurrent /\ [][NextConcurrent]_vars

(***************************************************************************)
(* What the documentation of the two schemas says a valid field is.  These *)
(* definitions are the yardstick of the properties below; the code is not  *)
(* consulted in them.                                                      *)
(***************************************************************************)
\* 1-10 characters, each an uppercase letter, a digit or a period
WellFormedSymbol(s) ==
    /\ Len(s) >= 1
    /\ Len(s) <= 10
    /\ \A i \in 1..Len(s) : s[i] \in UpperLetters \cup Digits \cup {"."}
\* a finite decimal, > 0, with at most 4 fractional digits
GoodDecimal(d) ==
    d.t = "Decimal" /\ d.special = "" /\ d.coef > 0 /\ d.exp >= -4
\* aware, UTC, not more than 5 minutes after the clock c, not before 2000
GoodTimestamp(ts, c) ==
    /\ ts.t = "datetime"
    /\ ts.aware
    /\ ts.offset = 0
    /\ ts.local - ts.offset <= c + 5
    /\ ts.local >= 0
NonBlank(v) == v.t = "str" /\ \E i \in 1..Len(v.v) : v.v[i] \notin {" ", "\n"}
GoodSide(v) == v = Str(B_U_Y) \/ v = Str(S_E_L_L)

\* the field constraints of the schema documentation, on the value v of a field
GoodField(field, v, c) ==
    CASE field = "symbol" -> v.t = "str" /\ WellFormedSymbol(v.v)
      [] field \in {"price", "quantity"} -> GoodDecimal(v)
      [] field = "timestamp" -> GoodTimestamp(v, c)
      [] field = "volume" -> v.t = "int" /\ v.v >= 0
      [] field = "side" -> GoodSide(v)
      [] OTHER -> NonBlank(v)

\* the tags of the messages of a validate call
Tags(errors) == {errors[i].tag : i \in 1..Len(errors)}
\* the messages of a validate call about one field
MsgsAbout(errors, tag, field) ==
    {i \in 1..Len(errors) : errors[i].tag = tag /\ errors[i].field = field}
\* the fields named by the entries of a ValidationError
Locs(errors) == {errors[i].loc : i \in 1..Len(errors)}

(***************************************************************************)
(* C1  Round trip: a record that the public constructor accepted and that  *)
(* has not been assigned to since passes every later validate call, with   *)
(* no message: validate returns (True, []).                                *)
(***************************************************************************)
C1_RoundTrip ==
    (out.op = "validate" /\ origin = "constructor" /\ assigns = 0)
        => (out.status = "returned" /\ out.passed /\ out.errors = <<>>)

\* validate ran, later than construction, on a constructed trade whose
\* timestamp lies exactly 5 minutes after the clock of its construction
C1_Witness ==
    /\ out.op = "validate"
    /\ origin = "constructor"
    /\ assigns = 0
    /\ rec.type = "TradeData"
    /\ stamped < out.clock
    /\ rec.f["timestamp"] = UtcAt(stamped + MAX_FUTURE_MINUTES)

\* every field holds a value of its declared type (a finite Decimal for
\* price and quantity) or None
DeclaredTypeOf(field) ==
    IF field \in {"price", "quantity"} THEN "Decimal" ELSE DeclaredType(field)
WellTyped(r) ==
    \A f \in FieldSet(r.type) :
        \/ IsNone(r.f[f])
        \/ r.f[f].t = DeclaredTypeOf(f) /\ (r.f[f].t = "Decimal" => r.f[f].special = "")

C3_ValidateNeverRaises ==
    (out.op = "validate" /\ WellTyped(rec))
        => /\ out.status = "returned"
           /\ \A f \in FieldSet(rec.type) :
                IsNone(rec.f[f]) => MsgsAbout(out.errors, "REQUIRED_FIELDS", f) # {}

(***************************************************************************)
(* C4  Every record that the public constructor returned, whatever field   *)
(* assignments were tried on it since, has all its fields valid by the     *)
(* field constraints of the schema (the timestamp against the clock at the *)
(* time it was set).                                                       *)
(***************************************************************************)
C4_LiveRecordsValid ==
    origin = "constructor"
        => \A f \in FieldSet(rec.type) : GoodField(f, rec.f[f], stamped)

(***************************************************************************)
(* C5  as claimed: once the constructor has returned a record, no later    *)
(* operation changes the value of any of its fields.                       *)
(***************************************************************************)
C5_Immutable == [][rec.type # "none" => rec' = rec]_vars

(***************************************************************************)
(* C5  as amended: the fields of a record change only by a field           *)
(* assignment whose value passed the validation of that field, and then    *)
(* only the assigned field changes, to the validated value; a rejected     *)
(* assignment and a validate call change no field.                         *)
(***************************************************************************)
C5_OnlyAcceptedAssignmentChanges ==
    [][(rec.type # "none" /\ rec' # rec)
        => /\ out'.op = "assign"
           /\ out'.passed
           /\ FieldOutcome(rec.type, out'.field, out'.input, now).k = "ok"
           /\ rec'.type = rec.type
           /\ \A g \in FieldSet(rec.type) \ {out'.field} : rec'.f[g] = rec.f[g]]_vars

\* an accepted assignment has replaced the symbol of a constructed record
C5_Witness ==
    /\ out.op = "assign"
    /\ out.passed
    /\ out.field = "symbol"
    /\ rec.f["symbol"] = out.input
    /\ rec.f["symbol"] # BaseOf(rec.type)["symbol"]

(***************************************************************************)
(* C6  Construction is all-or-nothing and reports every violated field:    *)
(* the constructor returns a record all of whose fields passed, or it      *)
(* returns no record and a ValidationError whose entries name exactly the  *)
(* fields that did not pass.                                               *)
(***************************************************************************)
Passes(type, field, raw, clock) == FieldOutcome(type, field, raw[field], clock).k = "ok"

C6_ConstructAllOrNothing ==
    out.op = "construct"
        => LET type == out.field
               failing == {f \in FieldSet(type) : ~Passes(type, f, out.input, out.clock)}
           IN  \/ /\ out.status = "ok"
                  /\ rec.type = type
                  /\ failing = {}
               \/ /\ out.status = "ValidationError"
                  /\ rec = NoRec
                  /\ failing # {}
                  /\ Locs(out.errors) = failing

(***************************************************************************)
(* C7  The constructor accepts a symbol string S exactly when S has 1-10   *)
(* characters, each an uppercase letter, a digit or a period, and then     *)
(* stores S unchanged.                                                     *)
(***************************************************************************)
C7_SymbolAcceptedIff ==
    (out.op = "construct" /\ out.status # "exception" /\ out.input["symbol"].t = "str")
        => /\ ("symbol" \notin Locs(out.errors))
                <=> WellFormedSymbol(out.input["symbol"].v)
           /\ out.status = "ok" => rec.f["symbol"] = out.input["symbol"]

(***************************************************************************)
(* C8  validate reports a SYMBOL_FORMAT violation (and does not pass)      *)
(* exactly for the symbol strings outside the 1-10 uppercase letter /      *)
(* digit / period rule.                                                    *)
(***************************************************************************)
C8_PostHocSymbolCheck ==
    (out.op = "validate" /\ out.status = "returned" /\ rec.f["symbol"].t = "str")
        => /\ ("SYMBOL_FORMAT" \in Tags(out.errors))
                <=> ~WellFormedSymbol(rec.f["symbol"].v)
           /\ ~WellFormedSymbol(rec.f["symbol"].v) => ~out.passed

(***************************************************************************)
(* The three symbol rules, as the code decides each of them.               *)
(***************************************************************************)
FailingRules(s) ==
    {r \in {"uppercase", "length", "pattern"} :
        \/ r = "uppercase" /\ s # Upper(s)
        \/ r = "length" /\ (Len(s) < 1 \/ Len(s) > 10)
        \/ r = "pattern" /\ ~SYMBOL_PATTERN_match(s)}
\* the first failing rule in the order the field validator tests them
FirstFailing(s) ==
    IF "uppercase" \in FailingRules(s) THEN "uppercase"
    ELSE IF "length" \in FailingRules(s) THEN "length"
    ELSE "pattern"
\* the symbol failures of a call: entries of the ValidationError about the
\* symbol, or SYMBOL_FORMAT messages of validate
SymbolFailures(o) ==
    IF o.op = "validate"
    THEN {i \in 1..Len(o.errors) : o.errors[i].tag = "SYMBOL_FORMAT"}
    ELSE {i \in 1..Len(o.errors) : o.errors[i].loc = "symbol"}
\* the rules they report ("cannot be empty" reports the length rule)
ReportedRules(o) ==
    {IF o.errors[i].rule = "empty" THEN "length" ELSE o.errors[i].rule :
        i \in SymbolFailures(o)}

(***************************************************************************)
(* C9  as claimed: at construction and in validate alike, a symbol gets a  *)
(* failure for every one of the three rules that it fails.                 *)
(***************************************************************************)
C9_EveryFailingRuleReported ==
    LET sym == IF out.op = "validate" THEN rec.f["symbol"] ELSE out.input["symbol"]
    IN  (out.op \in {"construct", "validate"} /\ out.status # "exception"
            /\ sym.t = "str")
            => FailingRules(sym.v) \subseteq ReportedRules(out)

(***************************************************************************)
(* C9  as amended: validate gives a non-empty symbol exactly one failure   *)
(* per failing rule (and the empty symbol the single "cannot be empty"     *)
(* failure); the constructor reports one symbol failure only, that of the  *)
(* first rule failing in the order empty, uppercase, length, pattern.      *)
(***************************************************************************)
C9_ValidateAllConstructFirst ==
    /\ (out.op = "validate" /\ out.status = "returned" /\ rec.f["symbol"].t = "str")
        => LET s == rec.f["symbol"].v
           IN  IF Len(s) = 0
               THEN /\ Cardinality(SymbolFailures(out)) = 1
                    /\ \A i \in SymbolFailures(out) : out.errors[i].rule = "empty"
               ELSE /\ Cardinality(SymbolFailures(out)) = Cardinality(FailingRules(s))
                    /\ ReportedRules(out) = FailingRules(s)
    /\ (out.op = "construct" /\ out.status # "exception" /\ out.input["symbol"].t = "str")
        => LET s == out.input["symbol"].v
           IN  IF FailingRules(s) = {}
               THEN SymbolFailures(out) = {}
               ELSE /\ Cardinality(SymbolFailures(out)) = 1
                    /\ \A i \in SymbolFailures(out) :
                        out.errors[i].rule =
                            IF Len(s) = 0 THEN "empty" ELSE FirstFailing(s)

\* validate has reported three failures for a symbol that fails all three
\* rules (eleven characters, one of them lowercase)
C9_Witness ==
    LET sym == IF out.op = "validate" THEN rec.f["symbol"] ELSE out.input["symbol"]
    IN  /\ out.op = "validate"
        /\ out.status = "returned"
        /\ sym.t = "str"
        /\ Cardinality(FailingRules(sym.v)) = 3
        /\ Cardinality(SymbolFailures(out)) = 3

(***************************************************************************)
(* C10  For a finite decimal D given as price or quantity, the constructor *)
(* accepts D exactly when D > 0 and the exponent of D is >= -4, and        *)
(* validate reports a PRICE_VALIDITY violation of that field for exactly   *)
(* the values that the constructor rejects.                                *)
(***************************************************************************)
IsFinite(d) == d.t = "Decimal" /\ d.special = ""
DecimalFields(type) == FieldSet(type) \cap {"price", "quantity"}

C10_PositiveDecimalRule ==
    /\ (out.op = "construct" /\ out.status # "exception")
        => \A f \in DecimalFields(out.field) :
            IsFinite(out.input[f])
                => ((f \notin Locs(out.errors)) <=> GoodDecimal(out.input[f]))
    /\ (out.op = "validate" /\ out.status = "returned")
        => \A f \in DecimalFields(rec.type) :
            IsFinite(rec.f[f])
                => ((MsgsAbout(out.errors, "PRICE_VALIDITY", f) # {})
                        <=> ~GoodDecimal(rec.f[f]))

\* the constructor has refused the quantity 1.00000 (five fractional
\* digits, all zero) of a trade
C10_Witness ==
    /\ out.op = "construct"
    /\ out.field = "TradeData"
    /\ out.input["quantity"] = Dec(100000, -5)
    /\ out.status = "ValidationError"
    /\ Locs(out.errors) = {"quantity"}

(***************************************************************************)
(* C11  A datetime T given as timestamp is accepted exactly when it is     *)
(* aware, its UTC offset is zero, T <= clock + 5 minutes (the bound itself *)
(* accepted) and its year is >= 2000, the clock being the one read by the  *)
(* call: the constructors of MarketData and TradeData name the timestamp   *)
(* in their ValidationError, an assignment to the timestamp is refused,    *)
(* and validate reports TIMESTAMP_VALIDITY, each for exactly the other     *)
(* datetimes.                                                              *)
(***************************************************************************)
C11_TimestampAcceptedIff ==
    /\ (out.op = "construct" /\ out.status # "exception"
            /\ out.input["timestamp"].t = "datetime")
        => (("timestamp" \notin Locs(out.errors))
                <=> GoodTimestamp(out.input["timestamp"], out.clock))
    /\ (out.op = "assign" /\ out.field = "timestamp" /\ out.input.t = "datetime")
        => (out.passed <=> GoodTimestamp(out.input, out.clock))
    /\ (out.op = "validate" /\ out.status = "returned"
            /\ rec.f["timestamp"].t = "datetime")
        => (("TIMESTAMP_VALIDITY" \notin Tags(out.errors))
                <=> GoodTimestamp(rec.f["timestamp"], out.clock))

\* validate, one minute after a model_construct, has passed the timestamp of
\* the last minute that it still accepts (its clock + 5 minutes) 
C11_Witness ==
    /\ out.op = "validate"
    /\ out.status = "returned"
    /\ origin = "model_construct"
    /\ out.clock > NowStart
    /\ rec.f["timestamp"] = UtcAt(out.clock + MAX_FUTURE_MINUTES)
    /\ "TIMESTAMP_VALIDITY" \notin Tags(out.errors)

(***************************************************************************)
(* C12  The TradeData constructor accepts the side exactly when it is the  *)
(* string "BUY" or the string "SELL", and validate_trade_data has a        *)
(* TRADE_SPECIFIC message about the side for exactly the other values.     *)
(***************************************************************************)
C12_SideExactEnum ==
    /\ (out.op = "construct" /\ out.field = "TradeData" /\ out.status # "exception")
        => (("side" \notin Locs(out.errors)) <=> GoodSide(out.input["side"]))
    /\ (out.op = "assign" /\ out.field = "side")
        => (out.passed <=> GoodSide(out.input))
    /\ (out.op = "validate" /\ rec.type = "TradeData" /\ out.status = "returned")
        => ((MsgsAbout(out.errors, "TRADE_SPECIFIC", "side") = {})
                <=> GoodSide(rec.f["side"]))

\* validate has reported the side "Sell" of a trade, and nothing else
C12_Witness ==
    /\ out.op = "validate"
    /\ out.status = "returned"
    /\ rec.type = "TradeData"
    /\ rec.f["side"] = Str(<<"S", "e", "l", "l">>)
    /\ Len(out.errors) = 1
    /\ MsgsAbout(out.errors, "TRADE_SPECIFIC", "side") = {1}

(***************************************************************************)
(* C13  For a string given as MarketData.source, TradeData.trade_id,       *)
(* TradeData.client_id or TradeData.venue, the constructor (and an         *)
(* assignment) rejects it exactly when it is empty or all whitespace.      *)
(***************************************************************************)
TextFields(type) == FieldSet(type) \cap {"source", "trade_id", "client_id", "venue"}

C13_NonEmptyStringRule ==
    /\ (out.op = "construct" /\ out.status # "exception")
        => \A f \in TextFields(out.field) :
            out.input[f].t = "str"
                => /\ (f \notin Locs(out.errors)) <=> NonBlank(out.input[f])
                   /\ out.status = "ok" => rec.f[f] = out.input[f]
    /\ (out.op = "assign" /\ out.field \in TextFields(rec.type) /\ out.input.t = "str")
        => (out.passed <=> NonBlank(out.input))

\* the constructor has refused a trade for its client_id " \n" alone
C13_Witness ==
    /\ out.op = "construct"
    /\ out.field = "TradeData"
    /\ out.input["client_id"] = Str(<<" ", "\n">>)
    /\ out.status = "ValidationError"
    /\ Locs(out.errors) = {"client_id"}

(***************************************************************************)
(* The contract categories of the Contract Validator, as the contracts     *)
(* describe them: which categories the fields r of a record of the given   *)
(* type violate at the clock c.                                            *)
(***************************************************************************)
Categories(type) ==
    {"PRICE_VALIDITY", "TIMESTAMP_VALIDITY", "SYMBOL_FORMAT"}
        \cup (IF type = "TradeData" THEN {"TRADE_SPECIFIC"} ELSE {})
\* a number > 0
Positive(q) ==
    \/ q.t = "int" /\ q.v > 0
    \/ q.t = "Decimal" /\ (q.special = "Infinity" \/ (q.special = "" /\ q.coef > 0))
Violates(cat, type, r, c) ==
    CASE cat = "PRICE_VALIDITY" -> \E f \in DecimalFields(type) : ~GoodDecimal(r[f])
      [] cat = "TIMESTAMP_VALIDITY" -> ~GoodTimestamp(r["timestamp"], c)
      [] cat = "SYMBOL_FORMAT" -> ~GoodField("symbol", r["symbol"], c)
      [] cat = "TRADE_SPECIFIC" ->
            \/ ~GoodSide(r["side"])
            \/ ~Positive(r["quantity"])
            \/ ~NonBlank(r["trade_id"])
            \/ ~NonBlank(r["venue"])

(***************************************************************************)
(* C14  validate does not short-circuit across contracts: every category   *)
(* (PRICE_VALIDITY, TIMESTAMP_VALIDITY, SYMBOL_FORMAT, and TRADE_SPECIFIC  *)
(* for trades) that the record violates has at least one message in the    *)
(* returned list, whatever other categories fail.                          *)
(***************************************************************************)
C14_NoShortCircuit ==
    out.op = "validate"
        => /\ out.status = "returned"
           /\ \A cat \in Categories(rec.type) :
                Violates(cat, rec.type, rec.f, out.clock) => cat \in Tags(out.errors)

(***************************************************************************)
(* Counting, from the rules of the contracts: the defective fields of a    *)
(* record, and the rule tests that its fields fail.                        *)
(***************************************************************************)
DefectiveFields(type, r, c) == {f \in FieldSet(type) : ~GoodField(f, r[f], c)}

\* the tests a price or quantity fails: its type, or its sign and its places
DecimalFailures(d) ==
    IF d.t # "Decimal" THEN {"type"}
    ELSE {x \in {"positive", "decimals"} :
            \/ x = "positive" /\ ~Positive(d)
            \/ x = "decimals" /\ d.special = "" /\ d.exp < -4}
\* the tests a datetime fails: a naive one fails a single test
TimestampFailures(ts, c) ==
    IF ~ts.aware THEN {"naive"}
    ELSE {x \in {"not_utc", "future", "too_old"} :
            \/ x = "not_utc" /\ ts.offset # 0
            \/ x = "future" /\ ts.local - ts.offset > c + 5
            \/ x = "too_old" /\ ts.local < 0}
\* the tests a symbol fails: an absent or empty one fails a single test
SymbolTestFailures(s) ==
    IF s.t # "str" \/ s.v = <<>> THEN {"empty"} ELSE FailingRules(s.v)
\* the trade-specific tests a trade fails
TradeFailures(r) ==
    {x \in {"side", "quantity", "trade_id", "venue"} :
        \/ x = "side" /\ ~GoodSide(r["side"])
        \/ x = "quantity" /\ ~Positive(r["quantity"])
        \/ x \in {"trade_id", "venue"} /\ ~NonBlank(r[x])}
\* the number of failing tests of a record whose timestamp is a datetime
FailedTests(type, r, c) ==
    Cardinality({f \in FieldSet(type) : IsNone(r[f])})
    + Cardinality(DecimalFailures(r["price"]))
    + Cardinality(TimestampFailures(r["timestamp"], c))
    + Cardinality(SymbolTestFailures(r["symbol"]))
    + (IF type = "TradeData"
       THEN Cardinality(DecimalFailures(r["quantity"])) + Cardinality(TradeFailures(r))
       ELSE 0)

ContractIds ==
    {"REQUIRED_FIELDS", "PRICE_VALIDITY", "TIMESTAMP_VALIDITY", "SYMBOL_FORMAT",
     "TRADE_SPECIFIC"}
Tagged(errors, tag) == SelectSeq(errors, LAMBDA m : m.tag = tag)

C16_MessagesTaggedByContract ==
    (out.op = "validate" /\ out.status = "returned")
        => /\ \A i \in 1..Len(out.errors) : out.errors[i].tag \in ContractIds
           /\ Tagged(out.errors, "REQUIRED_FIELDS")
                = MissingFrom(FieldsOf(rec.type), rec.f, 1)
           /\ \A m \in {Tagged(out.errors, "PRICE_VALIDITY")[i] :
                            i \in 1..Len(Tagged(out.errors, "PRICE_VALIDITY"))} :
                m.field \in DecimalFields(rec.type) /\ ~GoodDecimal(rec.f[m.field])
           /\ \A m \in {Tagged(out.errors, "TIMESTAMP_VALIDITY")[i] :
                            i \in 1..Len(Tagged(out.errors, "TIMESTAMP_VALIDITY"))} :
                m.field = "timestamp" /\ ~GoodTimestamp(rec.f["timestamp"], out.clock)
           /\ \A m \in {Tagged(out.errors, "SYMBOL_FORMAT")[i] :
                            i \in 1..Len(Tagged(out.errors, "SYMBOL_FORMAT"))} :
                m.field = "symbol" /\ ~GoodField("symbol", rec.f["symbol"], out.clock)
           /\ \A m \in {Tagged(out.errors, "TRADE_SPECIFIC")[i] :
                            i \in 1..Len(Tagged(out.errors, "TRADE_SPECIFIC"))} :
                /\ rec.type = "TradeData"
                /\ m.field \in TradeFailures(rec.f)

\* validate has returned messages under all five identifiers for one trade
C16_Witness ==
    /\ out.op = "validate"
    /\ out.status = "returned"
    /\ rec.type = "TradeData"
    /\ Tags(out.errors) = ContractIds

(***************************************************************************)
(* C17  check_idempotency(B1, B2) is True exactly when the batches have    *)
(* the same length and equal items at every index; so it is True of a      *)
(* batch and itself, the empty batch included, and False whenever the      *)
(* lengths differ.                                                         *)
(***************************************************************************)
C17_IdempotencyIffEqual ==
    inv.op = "check_idempotency"
        => /\ inv.status = "returned"
           /\ inv.value <=> /\ Len(batch1) = Len(batch2)
                            /\ \A i \in 1..Len(batch1) : batch1[i] = batch2[i]

\* check_idempotency([x], []) has returned False
C17_Witness ==
    /\ inv.op = "check_idempotency"
    /\ Len(batch1) = 1
    /\ batch2 = <<>>
    /\ inv.status = "returned"
    /\ ~inv.value

(***************************************************************************)
(* Batches whose items all carry a timestamp, all aware or all naive, so   *)
(* that any two of them are ordered.                                       *)
(***************************************************************************)
HasTimestamp(item) == item.t = "record" /\ item.timestamp.t = "datetime"
AllStamped(batch) ==
    /\ \A i \in 1..Len(batch) : HasTimestamp(batch[i])
    /\ \A i, j \in 1..Len(batch) : batch[i].timestamp.aware = batch[j].timestamp.aware
\* a <= b for two datetimes of the same kind
NotAfter(a, b) == IF a.aware THEN a.local - a.offset <= b.local - b.offset
                  ELSE a.local <= b.local

(***************************************************************************)
(* C18  On a batch whose records all have a timestamp,                     *)
(* check_monotonic_timestamps is True exactly when timestamp[i] <=         *)
(* timestamp[i+1] for every adjacent pair: ties pass, the empty batch and  *)
(* the single-element batches pass, one decreasing pair anywhere fails.    *)
(***************************************************************************)
C18_MonotonicIffNonDecreasing ==
    (inv.op = "check_monotonic_timestamps" /\ AllStamped(batch1))
        => /\ inv.status = "returned"
           /\ inv.value <=> \A i \in 1..(Len(batch1) - 1) :
                                NotAfter(batch1[i].timestamp, batch1[i + 1].timestamp)

\* check_monotonic_timestamps([t0, t0+2, t0+1]) has returned False
C18_Witness ==
    /\ inv.op = "check_monotonic_timestamps"
    /\ batch1 = <<Item(UtcAt(0)), Item(UtcAt(2)), Item(UtcAt(1))>>
    /\ inv.status = "returned"
    /\ ~inv.value

(***************************************************************************)
(* C20  check_completeness(B) is True exactly when B is non-empty and no   *)
(* item of B is None.                                                      *)
(***************************************************************************)
C20_CompleteIffNonEmptyNoNone ==
    inv.op = "check_completeness"
        => /\ inv.status = "returned"
           /\ inv.value <=> /\ Len(batch1) > 0
                            /\ \A i \in 1..Len(batch1) : ~IsNone(batch1[i])

\* check_completeness has returned False for a batch of three whose last
\* item alone is None
C20_Witness ==
    /\ inv.op = "check_completeness"
    /\ Len(batch1) = 3
    /\ IsNone(batch1[3])
    /\ ~IsNone(batch1[1])
    /\ ~IsNone(batch1[2])
    /\ inv.status = "returned"
    /\ ~inv.value

(***************************************************************************)
(* Records of a batch without timestamp (the item is None, or its          *)
(* timestamp is), and batches whose timestamps, where present, are all     *)
(* aware or all naive.                                                     *)
(***************************************************************************)
Unstamped(batch) == {k \in 1..Len(batch) : IsNone(TimestampOf(batch[k]))}
Stampable(batch) ==
    \A i, j \in 1..Len(batch) \ Unstamped(batch) :
        batch[i].timestamp.aware = batch[j].timestamp.aware
\* the entries of the diagnostic
DiagSet(r) == {r.diag[i] : i \in 1..Len(r.diag)}

SameKey(records, key, i, j) ==
    /\ ~IsNone(getattr(records[i], key))
    /\ getattr(records[i], key) = getattr(records[j], key)
\* the records at positions i and j lie in the same scope: every record lies
\* in the one global scope when no scope_key is given, else in the scope its
\* scope_key field names
SameScope(records, scope_key, i, j) ==
    \/ scope_key = <<>>
    \/ getattr(records[i], scope_key[1]) = getattr(records[j], scope_key[1])
Clash(records, key, scope_key) ==
    \E i, j \in 1..Len(records) :
        i # j /\ SameKey(records, key, i, j) /\ SameScope(records, scope_key, i, j)

\* C21: check_uniqueness returns True exactly when no two distinct records
\* carry the same non-null key value in the same scope; records without the
\* key never make it fail.
C21_UniqueIffNoClash ==
    inv.op = "check_uniqueness" =>
        /\ inv.status = "returned"
        /\ inv.value <=> ~Clash(batch1, inv.args.key, inv.args.scope_key)

\* the trade id TRD-001 under two clients: passes scoped by client_id, and
\* the same batch fails in the global scope
C21_Witness ==
    /\ inv.op = "check_uniqueness"
    /\ inv.args = [key |-> "trade_id", scope_key |-> <<"client_id">>]
    /\ batch1 = <<Trade(TRD_001, CLIENT_1, Str(AAPL)), Trade(TRD_001, CLIENT_2, Str(AAPL))>>
    /\ inv.value
    /\ ~check_uniqueness(batch1, "trade_id", <<>>).value

\* the 0-based indices of the records that share key value and scope with
\* the record at position i
Group(records, key, scope_key, i) ==
    {j - 1 : j \in {j \in 1..Len(records) :
                      j = i \/ (SameKey(records, key, i, j) /\ SameScope(records, scope_key, i, j))}}
Indices(entry) == {entry.indices[k] : k \in 1..Len(entry.indices)}
\* the entries of the diagnostic that are about the group of the record at i
EntriesAbout(diag, group) == {k \in 1..Len(diag) : Indices(diag[k]) \subseteq group}

\* C22: a failing check_uniqueness reports every group of records sharing
\* scope and key value exactly once, with all the indices of the group.
C22_OneEntryPerGroup ==
    (inv.op = "check_uniqueness" /\ inv.status = "returned" /\ ~inv.value) =>
        \A i \in 1..Len(batch1) :
            LET group == Group(batch1, inv.args.key, inv.args.scope_key, i)
            IN  Cardinality(group) > 1 =>
                    /\ Cardinality(EntriesAbout(inv.diag, group)) = 1
                    /\ \A k \in EntriesAbout(inv.diag, group) : Indices(inv.diag[k]) = group

\* some trade of the batch carries a symbol that is not among the known ones
HasUnknownSymbol(trades, known_symbols) ==
    \E i \in 1..Len(trades) :
        /\ ~IsNone(getattr(trades[i], "symbol"))
        /\ getattr(trades[i], "symbol") \notin known_symbols

\* C23: check_referential_integrity returns True whenever strict is False;
\* with strict True it returns False exactly when some trade carries a symbol
\* outside known_symbols; the empty batch returns True in both modes.
C23_StrictIffUnknownSymbol ==
    inv.op = "check_referential_integrity" =>
        /\ inv.status = "returned"
        /\ ~inv.args.strict => inv.value
        /\ inv.args.strict =>
              (inv.value <=> ~HasUnknownSymbol(batch1, inv.args.known_symbols))
        /\ batch1 = <<>> => inv.value

\* a trade in ZZZZ against the known symbols {AAPL}: False when strict, and
\* True for the same batch and set when not strict
C23_Witness ==
    /\ inv.op = "check_referential_integrity"
    /\ batch1 = <<Trade(TRD_001, CLIENT_1, ZZZZ)>>
    /\ inv.args = [known_symbols |-> {Str(AAPL)}, strict |-> TRUE]
    /\ ~inv.value
    /\ check_referential_integrity(batch1, {Str(AAPL)}, FALSE).value

\* C24: every call of one of the five invariant checks returns a boolean and
\* raises nothing, whatever the batch holds (None entries and records
\* without the inspected field included).
C24_ChecksNeverRaise ==
    inv.op # "none" => inv.status = "returned"

\* the 0-based positions of the offending items of the call in inv: differing
\* positions, None items, violating pairs (by their first record), repeated
\* occurrences of a key, first occurrences of an unknown symbol
Offending ==
    CASE inv.op = "check_idempotency" ->
            {i - 1 : i \in {i \in 1..Len(batch1) : i > Len(batch2) \/ batch1[i] # batch2[i]}}
      [] inv.op = "check_completeness" ->
            {i - 1 : i \in {i \in 1..Len(batch1) : IsNone(batch1[i])}}
      [] inv.op = "check_monotonic_timestamps" ->
            {i - 1 : i \in {i \in 1..(Len(batch1) - 1) :
                \/ IsNone(TimestampOf(batch1[i]))
                \/ IsNone(TimestampOf(batch1[i + 1]))
                \/ DatetimeGt(TimestampOf(batch1[i]), TimestampOf(batch1[i + 1])) = "True"}}
      [] inv.op = "check_uniqueness" ->
            {i - 1 : i \in {i \in 1..Len(batch1) : \E j \in 1..(i - 1) :
                /\ SameKey(batch1, inv.args.key, i, j)
                /\ SameScope(batch1, inv.args.scope_key, i, j)}}
      [] inv.op = "check_referential_integrity" ->
            {i - 1 : i \in {i \in 1..Len(batch1) :
                /\ ~IsNone(getattr(batch1[i], "symbol"))
                /\ getattr(batch1[i], "symbol") \notin inv.args.known_symbols
                /\ \A j \in 1..(i - 1) :
                      getattr(batch1[j], "symbol") # getattr(batch1[i], "symbol")}}
      [] OTHER -> {}
\* the 0-based position an entry of the diagnostic list stands for
EntryIndex(entry) ==
    CASE inv.op = "check_monotonic_timestamps" -> entry.index
      [] inv.op = "check_uniqueness" -> entry.indices[Len(entry.indices)]
      [] inv.op = "check_referential_integrity" ->
            (CHOOSE i \in 1..Len(batch1) :
                /\ getattr(batch1[i], "symbol") = entry
                /\ \A j \in 1..(i - 1) : getattr(batch1[j], "symbol") # entry) - 1
      [] OTHER -> entry
\* the diagnostic shows the first (at most limit) offending items in batch
\* order and states their true number
ShowsFirst(limit) ==
    /\ inv.count = Cardinality(Offending)
    /\ Len(inv.diag) = (IF inv.count <= limit THEN inv.count ELSE limit)
    /\ \A k \in 1..Len(inv.diag) :
          /\ EntryIndex(inv.diag[k]) \in Offending
          /\ Cardinality({y \in Offending : y < EntryIndex(inv.diag[k])}) = k - 1

\* C25: every failing call of an invariant check lists at most 10 offending
\* items, the first 10 in batch order, and its count is their true number.
C25_ListsFirstTen ==
    (inv.op # "none" /\ inv.status = "returned" /\ ~inv.value) => ShowsFirst(10)

\* the 0-based positions at which two batches differ: the items are unequal,
\* or only one of the batches has an item there
DifferingIndices(b1, b2) ==
    {i - 1 : i \in {i \in 1..(Len(b1) + Len(b2)) :
        \/ (i <= Len(b1) /\ i > Len(b2))
        \/ (i > Len(b1) /\ i <= Len(b2))
        \/ (i <= Len(b1) /\ i <= Len(b2) /\ b1[i] # b2[i])}}

\* C27: whenever check_idempotency returns False its diagnostic names every
\* position at which the two batches differ, also when their lengths differ.
C27_EveryDifferingIndexListed ==
    (inv.op = "check_idempotency" /\ inv.status = "returned" /\ ~inv.value) =>
        DiagSet(inv) = DifferingIndices(batch1, batch2)

\* the batch with its items in the order p (a permutation of its positions)
Reordered(records, p) == [i \in 1..Len(records) |-> records[p[i]]]
\* the orders a batch is tried in: all of them for a batch of up to three
\* items; for a longer one the reverse order and the exchanges of two
\* neighbours, of which every order is a composition
Orders(records) ==
    IF Len(records) <= 3
    THEN {p \in [1..Len(records) -> 1..Len(records)] :
            \A i, j \in 1..Len(records) : p[i] = p[j] => i = j}
    ELSE {[i \in 1..Len(records) |-> Len(records) + 1 - i]}
         \cup {[i \in 1..Len(records) |-> IF i = k THEN k + 1 ELSE IF i = k + 1 THEN k ELSE i] :
                 k \in 1..(Len(records) - 1)}

\* C29: a batch that check_uniqueness accepts with no scope_key it accepts
\* with every scope_key, for the same key; and check_uniqueness returns the
\* same boolean for the batch in any other order.
C29_GlobalImpliesScopedAnyOrder ==
    inv.op = "check_uniqueness" =>
        /\ (inv.args.scope_key = <<>> /\ inv.value) =>
              \A scope_key \in ScopeKeys \cup {<<"symbol">>, <<"trade_id">>} :
                  check_uniqueness(batch1, inv.args.key, scope_key).value
        /\ \A p \in Orders(batch1) :
              check_uniqueness(Reordered(batch1, p), inv.args.key, inv.args.scope_key).value
                  = inv.value

\* a batch of three different records, two of them sharing a trade id under
\* different clients, with a missing key among them: refused globally in
\* every order, accepted per client in every order
C29_Witness ==
    /\ inv.op = "check_uniqueness"
    /\ inv.args = [key |-> "trade_id", scope_key |-> <<"client_id">>]
    /\ batch1 = <<Trade(TRD_001, CLIENT_1, Str(AAPL)), Trade(None, CLIENT_1, Str(AAPL)),
                  Trade(TRD_001, CLIENT_2, Str(AAPL))>>
    /\ inv.value
    /\ \A p \in Orders(batch1) : ~check_uniqueness(Reordered(batch1, p), "trade_id", <<>>).value

\* C30: a trade whose symbol is absent or None is skipped, never counted as
\* unknown, so that a batch of such trades only passes the strict check; and
\* a batch that passes the strict check for a set of known symbols passes
\* it for every larger set.
C30_SkipsMissingAndMonotone ==
    (inv.op = "check_referential_integrity" /\ inv.args.strict) =>
        /\ inv.status = "returned"
        /\ inv.affected =
              Cardinality({i \in 1..Len(batch1) :
                  /\ ~IsNone(getattr(batch1[i], "symbol"))
                  /\ getattr(batch1[i], "symbol") \notin inv.args.known_symbols})
        /\ (\A i \in 1..Len(batch1) : IsNone(getattr(batch1[i], "symbol"))) => inv.value
        /\ inv.value =>
              \A more \in SUBSET {Str(AAPL), ZZZZ, Sym(1)} :
                  check_referential_integrity(batch1, inv.args.known_symbols \cup more, TRUE).value

\* a strict call on None, an object without symbol and a trade whose symbol
\* is None, against no known symbol at all: nothing is counted, it passes
C30_Witness ==
    /\ inv.op = "check_referential_integrity"
    /\ inv.args = [known_symbols |-> {}, strict |-> TRUE]
    /\ batch1 = <<None, Bare, Trade(TRD_001, CLIENT_1, None)>>
    /\ inv.value
    /\ inv.count = 0

(***************************************************************************)
(* Validity over time.                                                     *)
(***************************************************************************)
\* validate calls are looked at up to this many minutes after the last tick
MaxLater == 8
\* what a validate call on the record would hand back at the clock t
ValidateAt(t) ==
    IF rec.type = "MarketData" THEN validate_market_data(rec.f, t)
    ELSE validate_trade_data(rec.f, t)

\* C28: a record that a validate call has passed, and that has not been
\* modified since, passes every validate call made at that or a later time.
C28_PassedStaysPassed ==
    (out.op = "validate" /\ out.passed) =>
        \A t \in out.clock..(NowStart + MaxTicks + MaxLater) :
            ValidateAt(t).status = "returned" /\ ValidateAt(t).passed

\* the converse fails: validate passes a record, after a tick, that a call
\* at the earlier time refuses for its timestamp being too far in the future
C28_Witness ==
    /\ out.op = "validate"
    /\ out.passed
    /\ out.clock > NowStart
    /\ ValidateAt(NowStart).errors = <<Msg("TIMESTAMP_VALIDITY", "timestamp", "future")>>

(***************************************************************************)
(* Calls that run at the same time.                                        *)
(***************************************************************************)
\* what the call of a frame hands back when it runs with no other call
\* under way
Alone(frame) ==
    IF frame.fn = "check_uniqueness"
    THEN check_uniqueness(frame.batch, frame.args.key, frame.args.scope_key)
    ELSE IF frame.record.type = "MarketData"
    THEN validate_market_data(frame.record.f, now)
    ELSE validate_trade_data(frame.record.f, now)

====
